---- MODULE Spec2Model ----
(***************************************************************************)
(* Model of the doxa ORM core: the record cache (models/cache.go), the     *)
(* computed fields engine (models/rc_computed.go) and the two-phase field  *)
(* registry (models/fields_defs.go).                                       *)
(***************************************************************************)
EXTENDS Integers, Sequences, FiniteSets, TLC

VARIABLES
  cache,     \* the cache of the environment
  store,     \* the rows of the database, by record and json name
  log,       \* what the last call did: compute calls, writes, removals
  registry,  \* the bootstrapped flag and the fields of the registry
  last,      \* the last call and its arguments
  nops       \* the number of calls made

vars == <<cache, store, log, registry, last, nops>>

(***************************************************************************)
(* Bounds                                                                  *)
(***************************************************************************)
MaxId == 2
MaxOps == 3
MaxCalls == 2
MaxUpdates == 2

Ids == 1..MaxId

(***************************************************************************)
(* Go values held in an interface{}: a dynamic type tag and a payload.     *)
(* Two interface values are == iff tag and payload are equal.              *)
(***************************************************************************)
Nil == [t |-> "nil", n |-> 0, q |-> <<>>]
I64(x) == [t |-> "int64", n |-> x, q |-> <<>>]
Str(x) == [t |-> "string", n |-> x, q |-> <<>>]
True == [t |-> "bool", n |-> 1, q |-> <<>>]
IdsV(s) == [t |-> "[]int64", n |-> 0, q |-> s]

Range(s) == {s[i] : i \in DOMAIN s}

\* The ascending enumeration of a set of ids: the representative of a slice
\* that the code builds by ranging over a map (order unspecified).
RECURSIVE SortedSeq(_)
SortedSeq(S) ==
  IF S = {} THEN <<>>
  ELSE LET m == CHOOSE x \in S : \A y \in S : x <= y
       IN <<m>> \o SortedSeq(S \ {m})

\* Go maps: partial functions.
Put(f, k, v) == [x \in (DOMAIN f) \cup {k} |-> IF x = k THEN v ELSE f[x]]
Del(f, k) == [x \in (DOMAIN f) \ {k} |-> f[x]]
Lookup(f, k) == IF k \in DOMAIN f THEN f[k] ELSE Nil
EmptyMap == [x \in {} |-> Nil]

(***************************************************************************)
(* The schema the cache works on: two models, every field kind.            *)
(***************************************************************************)
Models == {"Post", "Tag"}

NoRel == [relatedModel |-> "", jsonReverseFK |-> "", m2mRelModel |-> "",
          m2mOurField |-> "", m2mTheirField |-> ""]

Fld(model, name, json, fieldType, rel) ==
  [model |-> model, name |-> name, json |-> json, fieldType |-> fieldType,
   relatedModel |-> rel.relatedModel, jsonReverseFK |-> rel.jsonReverseFK,
   m2mRelModel |-> rel.m2mRelModel, m2mOurField |-> rel.m2mOurField,
   m2mTheirField |-> rel.m2mTheirField,
   compute |-> "", inverse |-> "", stored |-> FALSE, depends |-> {},
   required |-> FALSE]

\* a field declared with Required
Required(f) == [f EXCEPT !.required = TRUE]

\* a field declared with Compute, Inverse, Stored and Depends
Computed(f, compute, inverse, stored, depends) ==
  [f EXCEPT !.compute = compute, !.inverse = inverse, !.stored = stored,
            !.depends = depends]

\* strings.Compare on the endpoint names used by the schema: the rank of a
\* name is its place in the lexical order of byte strings.
NameOrder == <<"Book", "Child", "Invoice", "Line", "Parent", "Post", "Reader", "Tag">>
NameRank(s) ==
  IF \E i \in DOMAIN NameOrder : NameOrder[i] = s
    THEN CHOOSE i \in DOMAIN NameOrder : NameOrder[i] = s
    ELSE 0
StrCompare(a, b) ==
  IF a = b THEN 0 ELSE IF NameRank(a) < NameRank(b) THEN 0 - 1 ELSE 1

\* a Many2ManyField definition
Many2ManyField(related, our, their, linkModelName) ==
  [RelationModel |-> related, M2MOurField |-> our, M2MTheirField |-> their,
   M2MLinkModelName |-> linkModelName]

Many2ManyDeclareField_unsorted(model, mf) ==
  LET declare(our, their) ==
        [panic |-> our = their,
         rel |-> [relatedModel |-> mf.RelationModel, jsonReverseFK |-> "",
                  m2mRelModel |-> IF mf.M2MLinkModelName = ""
                                    THEN our \o their \o "Rel"
                                    ELSE mf.M2MLinkModelName,
                  m2mOurField |-> our, m2mTheirField |-> their]]
  IN declare(IF mf.M2MOurField = "" THEN model ELSE mf.M2MOurField,
             IF mf.M2MTheirField = "" THEN mf.RelationModel ELSE mf.M2MTheirField)

\* Many2ManyField.DeclareField: the endpoint names default to the two model
\* names and must differ, the link model is named after the two sorted
\* endpoint names unless a name is given.
Many2ManyDeclareField(model, mf) ==
  LET named(our, their, modelNames) ==
        [panic |-> our = their,
         rel |-> [relatedModel |-> mf.RelationModel, jsonReverseFK |-> "",
                  m2mRelModel |-> IF mf.M2MLinkModelName = ""
                                    THEN modelNames[1] \o modelNames[2] \o "Rel"
                                    ELSE mf.M2MLinkModelName,
                  m2mOurField |-> our, m2mTheirField |-> their]]
      declare(our, their) ==
        named(our, their,
              IF StrCompare(our, their) <= 0 THEN <<our, their>> ELSE <<their, our>>)
  IN declare(IF mf.M2MOurField = "" THEN model ELSE mf.M2MOurField,
             IF mf.M2MTheirField = "" THEN mf.RelationModel ELSE mf.M2MTheirField)

\* a many-to-many field declared with the default names
M2MDeclared(model, related) ==
  Many2ManyDeclareField(model, Many2ManyField(related, "", "", "")).rel

FKTo(related) == [NoRel EXCEPT !.relatedModel = related]
RevTo(related, fk) ==
  [NoRel EXCEPT !.relatedModel = related, !.jsonReverseFK = fk]

FieldTable ==
  { Fld("Post", "ID", "id", "Integer", NoRel),
    Fld("Post", "Title", "title", "Char", NoRel),
    Fld("Post", "Tags", "tags", "Many2Many", M2MDeclared("Post", "Tag")),
    Fld("Post", "Items", "items_ids", "One2Many", RevTo("Tag", "post_id")),
    Required(Fld("Post", "Main", "main_id", "Rev2One", RevTo("Tag", "owner_id"))),
    Fld("Tag", "ID", "id", "Integer", NoRel),
    Fld("Tag", "Posts", "posts", "Many2Many", M2MDeclared("Tag", "Post")),
    Required(Fld("Tag", "Post", "post_id", "Many2One", FKTo("Post"))),
    Fld("Tag", "Owner", "owner_id", "One2One", FKTo("Post")),
    Fld("Invoice", "ID", "id", "Integer", NoRel),
    Fld("Invoice", "WriteDate", "write_date", "DateTime", NoRel),
    Fld("Invoice", "Discount", "discount", "Integer", NoRel),
    Fld("Invoice", "Tax", "tax", "Integer", NoRel),
    Fld("Invoice", "Lines", "lines_ids", "One2Many", RevTo("Line", "invoice_id")),
    Computed(Fld("Invoice", "Total", "total", "Integer", NoRel),
             "ComputeTotal", "InverseTotal", TRUE,
             {<<"Lines", "Amount">>, <<"Discount">>, <<"Tax">>}),
    Computed(Fld("Invoice", "NbLines", "nb_lines", "Integer", NoRel),
             "ComputeTotal", "", TRUE,
             {<<"Lines", "Amount">>, <<"Discount">>, <<"Tax">>}),
    Computed(Fld("Invoice", "Label", "label", "Char", NoRel),
             "ComputeLabel", "", FALSE, {<<"Total">>}),
    Computed(Fld("Invoice", "Note", "note", "Char", NoRel),
             "ComputeLabel", "", FALSE, {<<"Total">>}),
    Fld("Line", "ID", "id", "Integer", NoRel),
    Fld("Line", "Amount", "amount", "Integer", NoRel),
    Fld("Line", "Invoice", "invoice_id", "Many2One", FKTo("Invoice")),
    Fld("Reader", "ID", "id", "Integer", NoRel),
    Fld("Reader", "Books", "books", "Many2Many", M2MDeclared("Reader", "Book")),
    Fld("Book", "ID", "id", "Integer", NoRel),
    Fld("Cell", "ID", "id", "Integer", NoRel),
    Fld("Cell", "X", "x", "Integer", NoRel),
    Fld("Cell", "Y", "y", "Integer", NoRel),
    Computed(Fld("Cell", "A", "a", "Integer", NoRel),
             "ComputeA", "", TRUE, {<<"X">>, <<"B">>}),
    Computed(Fld("Cell", "B", "b", "Integer", NoRel),
             "ComputeB", "", TRUE, {<<"A">>}),
    Computed(Fld("Cell", "C", "c", "Integer", NoRel),
             "ComputeC", "", TRUE, {<<"Y">>}),
    Computed(Fld("Cell", "D", "d", "Integer", NoRel),
             "ComputeD", "", TRUE, {<<"C">>}) }

FieldsOf(mi) == {f \in FieldTable : f.model = mi}

\* the registries of a fields collection, by name and by json name
FieldsByName ==
  LET registries(fields) ==
        [k \in UNION {{<<f.model, f.name>>, <<f.model, f.json>>} : f \in fields} |->
           CHOOSE f \in fields : f.model = k[1] /\ (f.name = k[2] \/ f.json = k[2])]
  IN registries(FieldTable)

\* FieldsCollection.MustGet: a field is found by its name or its json name.
MustGet(mi, n) == FieldsByName[<<mi, n>>]

\* jsonizeExpr: every segment of a path is replaced by the json name of the
\* field it designates in the model reached so far.
RECURSIVE jsonizeExpr(_, _)
jsonizeExpr(mi, exprs) ==
  IF exprs = <<>> THEN <<>>
  ELSE LET jsonized(fi) == <<fi.json>> \o jsonizeExpr(fi.relatedModel, Tail(exprs))
       IN jsonized(MustGet(mi, Head(exprs)))

getRelatedModelInfo(mi, n) == MustGet(mi, n).relatedModel

(***************************************************************************)
(* cache                                                                   *)
(***************************************************************************)
Ref(mi, id) == [model |-> mi, id |-> id]

newCache == [data |-> EmptyMap, m2mLinks |-> EmptyMap]

OurIndex_noTieBreak(fi) == 1

\* (strings.Compare(our, their) + 1) / 2, Go's integer division
OurIndex(fi) == ((StrCompare(fi.m2mOurField, fi.m2mTheirField) + 1) \div 2) + 1
TheirIndex(fi) == ((OurIndex(fi) - 1 + 1) % 2) + 1

removeM2MLinks_allOfModel(c, fi, id) ==
  IF fi.m2mRelModel \notin DOMAIN c.m2mLinks THEN c
  ELSE [c EXCEPT !.m2mLinks[fi.m2mRelModel] = {}]

removeM2MLinks(c, fi, id) ==
  IF fi.m2mRelModel \notin DOMAIN c.m2mLinks THEN c
  ELSE [c EXCEPT !.m2mLinks[fi.m2mRelModel] =
          {link \in @ : link[OurIndex(fi)] # id}]

NewLink(fi, id, val) ==
  [i \in 1..2 |-> IF i = OurIndex(fi) THEN id ELSE val]

addM2MLink(c, fi, id, values) ==
  LET links == IF fi.m2mRelModel \in DOMAIN c.m2mLinks
                 THEN c.m2mLinks[fi.m2mRelModel] ELSE {}
  IN [c EXCEPT !.m2mLinks =
        Put(@, fi.m2mRelModel,
            links \cup {NewLink(fi, id, values[i]) : i \in DOMAIN values})]

\* the linked ids, as a set (the code returns them in map order)
getM2MLinks(c, fi, id) ==
  IF fi.m2mRelModel \notin DOMAIN c.m2mLinks THEN {}
  ELSE {link[TheirIndex(fi)] :
          link \in {l \in c.m2mLinks[fi.m2mRelModel] : l[OurIndex(fi)] = id}}

getByRef_byName(c, ref, fName) ==
  LET fi == MustGet(ref.model, fName)
  IN {IF ref \in DOMAIN c.data THEN Lookup(c.data[ref], fi.name) ELSE Nil}

\* The switch of cache.get on a resolved reference and a json name: the set
\* of values the call can return. Ranging over c.data has no fixed order, so
\* a Rev2One read returns any one of the matching records.
getByRef(c, ref, fName) ==
  LET fi == MustGet(ref.model, fName)
      back == {r \in DOMAIN c.data :
                 /\ r.model = fi.relatedModel
                 /\ Lookup(c.data[r], fi.jsonReverseFK) = I64(ref.id)}
  IN CASE fi.fieldType = "One2Many" ->
            {IdsV(SortedSeq({r.id : r \in back}))}
       [] fi.fieldType = "Rev2One" ->
            IF back = {} THEN {Nil} ELSE {I64(r.id) : r \in back}
       [] fi.fieldType = "Many2Many" ->
            {IdsV(SortedSeq(getM2MLinks(c, fi, ref.id)))}
       [] OTHER ->
            {IF ref \in DOMAIN c.data THEN Lookup(c.data[ref], fName) ELSE Nil}

NotInCache == [err |-> TRUE, ref |-> Ref("", 0), fName |-> ""]

RECURSIVE getRelatedRef_sameId(_, _, _, _)
getRelatedRef_sameId(c, mi, id, path) ==
  LET exprs == jsonizeExpr(mi, path)
  IN IF Len(exprs) > 1
       THEN LET relMI == getRelatedModelInfo(mi, exprs[1])
            IN UNION { getRelatedRef_sameId(c, relMI,
                                            IF v.t = "int64" THEN v.n ELSE id,
                                            Tail(exprs)) :
                       v \in getByRef(c, Ref(mi, id), exprs[1]) }
       ELSE {[err |-> FALSE, ref |-> Ref(mi, id), fName |-> exprs[1]]}

\* getRelatedRef: the references a path can resolve to
RECURSIVE getRelatedRef(_, _, _, _)
getRelatedRef(c, mi, id, path) ==
  LET exprs == jsonizeExpr(mi, path)
  IN IF Len(exprs) > 1
       THEN LET relMI == getRelatedModelInfo(mi, exprs[1])
            IN UNION { IF v.t = "int64"
                         THEN getRelatedRef(c, relMI, v.n, Tail(exprs))
                         ELSE {NotInCache} :
                       v \in getByRef(c, Ref(mi, id), exprs[1]) }
       ELSE {[err |-> FALSE, ref |-> Ref(mi, id), fName |-> exprs[1]]}

\* cache.get: the values the call can return (Nil: not found)
get(c, mi, id, fieldName) ==
  UNION { IF r.err THEN {Nil} ELSE getByRef(c, r.ref, r.fName) :
          r \in getRelatedRef(c, mi, id, fieldName) }

\* checkIfInCache for one id and one field name: the possible answers
checkIfInCache(c, mi, id, fieldName) ==
  { /\ ~r.err
    /\ r.ref \in DOMAIN c.data
    /\ r.fName \in DOMAIN c.data[r.ref] :
    r \in getRelatedRef(c, mi, id, fieldName) }

RECURSIVE updateEntryByRef(_, _, _, _)
RECURSIVE updateReverseFK(_, _, _, _)

updateReverseFK_none(c, fi, ids, refId) == c

\* the loop of the One2Many case: c.updateEntry(relatedModel, id, reverseFK,
\* ref.id) for each id, a single-segment path
updateReverseFK(c, fi, ids, refId) ==
  IF ids = <<>> THEN c
  ELSE updateReverseFK(
         updateEntryByRef(c, Ref(fi.relatedModel, Head(ids)),
                          jsonizeExpr(fi.relatedModel, <<fi.jsonReverseFK>>)[1],
                          I64(refId)),
         fi, Tail(ids), refId)

updateEntryByRef(c, ref, jsonName, value) ==
  LET c1 == IF ref \in DOMAIN c.data THEN c
            ELSE [c EXCEPT !.data = Put(@, ref, Put(EmptyMap, "id", I64(ref.id)))]
      fi == MustGet(ref.model, jsonName)
      mark(cc) == [cc EXCEPT !.data[ref] = Put(@, jsonName, True)]
  IN CASE fi.fieldType = "One2Many" ->
            mark(updateReverseFK(c1, fi, value.q, ref.id))
       [] fi.fieldType = "Rev2One" ->
            mark(updateReverseFK(c1, fi, <<value.n>>, ref.id))
       [] fi.fieldType = "Many2Many" ->
            mark(addM2MLink(removeM2MLinks(c1, fi, ref.id), fi, ref.id, value.q))
       [] OTHER ->
            [c1 EXCEPT !.data[ref] = Put(@, jsonName, value)]

\* cache.updateEntry: the outcomes of the call, an error flag and the cache
updateEntry(c, mi, id, fieldName, value) ==
  { IF r.err THEN [err |-> TRUE, c |-> c]
    ELSE [err |-> FALSE, c |-> updateEntryByRef(c, r.ref, r.fName, value)] :
    r \in getRelatedRef(c, mi, id, fieldName) }

RECURSIVE removeM2MLinksOfFields(_, _, _)
removeM2MLinksOfFields(c, fields, id) ==
  IF fields = {} THEN c
  ELSE LET fi == CHOOSE f \in fields : TRUE
       IN removeM2MLinksOfFields(
            IF fi.fieldType = "Many2Many" THEN removeM2MLinks(c, fi, id) ELSE c,
            fields \ {fi}, id)

invalidateRecord_dataOnly(c, mi, id) ==
  [c EXCEPT !.data = Del(@, Ref(mi, id))]

invalidateRecord(c, mi, id) ==
  removeM2MLinksOfFields([c EXCEPT !.data = Del(@, Ref(mi, id))],
                         FieldsOf(mi), id)

\* cache.removeEntry: the outcomes of the call
removeEntry(c, mi, id, fieldName) ==
  { IF ~inCache THEN c
    ELSE LET ref == Ref(mi, id)
             c1 == IF ref \in DOMAIN c.data
                     THEN [c EXCEPT !.data[ref] = Del(@, fieldName)] ELSE c
             fi == MustGet(mi, fieldName)
         IN IF fi.fieldType = "Many2Many" THEN removeM2MLinks(c1, fi, id) ELSE c1 :
    inCache \in checkIfInCache(c, mi, id, <<fieldName>>) }

\* cache.addRecord: updateEntry on each entry of fMap, the paths taken from
\* the shortest on; the outcomes of the call
RECURSIVE addRecord(_, _, _, _, _)
addRecord(c, mi, id, fMap, paths) ==
  IF paths = <<>> THEN {c}
  ELSE UNION { addRecord(r.c, mi, id, fMap, Tail(paths)) :
               r \in updateEntry(c, mi, id, Head(paths), fMap[Head(paths)]) }

(***************************************************************************)
(* The cache of one environment under a bounded sequence of calls          *)
(***************************************************************************)
IdSeqs == {SortedSeq(S) : S \in SUBSET Ids}

\* the field a path of names ends on
RECURSIVE PathField(_, _)
PathField(mi, path) ==
  IF Len(path) = 1 THEN MustGet(mi, path[1])
  ELSE PathField(getRelatedModelInfo(mi, path[1]), Tail(path))

\* paths the calls are made with: every field by its name, and paths through
\* a many-to-one, a reverse-one-to-one and a one-to-many field
Paths(mi) ==
  {<<f.name>> : f \in {g \in FieldsOf(mi) : g.name # "ID"}}
  \cup (IF mi = "Tag" THEN {<<"Post", "Title">>}
        ELSE {<<"Main", "Post">>, <<"Items", "Owner">>})

ValuesOf(fi) ==
  CASE fi.fieldType \in {"One2Many", "Many2Many"} -> {IdsV(q) : q \in IdSeqs}
    [] fi.fieldType \in {"Many2One", "One2One", "Rev2One"} -> {I64(i) : i \in Ids}
    [] OTHER -> {Str(1), Str(2)}

\* the last call made on the cache: its arguments, whether it returned an
\* error, and what get answered for its target just before the call
Call(op, mi, id, path, value, err, old) ==
  [op |-> op, model |-> mi, id |-> id, path |-> path, value |-> value,
   err |-> err, old |-> old]

CacheInit ==
  /\ cache = newCache
  /\ last = Call("newCache", "", 0, <<>>, Nil, FALSE, {})
  /\ nops = 0
  /\ store = EmptyMap
  /\ log = <<>>
  /\ registry = EmptyMap

UpdateEntry ==
  /\ nops < MaxOps
  /\ \E mi \in Models, id \in Ids :
       \E path \in Paths(mi) :
         \E value \in ValuesOf(PathField(mi, path)) :
           \E r \in updateEntry(cache, mi, id, path, value) :
             /\ cache' = r.c
             /\ last' = Call("updateEntry", mi, id, path, value, r.err,
                             get(cache, mi, id, path))
  /\ nops' = nops + 1
  /\ UNCHANGED <<store, log, registry>>

AddM2MLink ==
  /\ nops < MaxOps
  /\ \E fi \in {f \in FieldTable : f.model \in Models /\ f.fieldType = "Many2Many"},
        id \in Ids :
       \E q \in IdSeqs :
         /\ cache' = addM2MLink(cache, fi, id, q)
         /\ last' = Call("addM2MLink", fi.model, id, <<fi.name>>, IdsV(q), FALSE,
                         get(cache, fi.model, id, <<fi.name>>))
  /\ nops' = nops + 1
  /\ UNCHANGED <<store, log, registry>>

InvalidateRecord ==
  /\ nops < MaxOps
  /\ \E mi \in Models, id \in Ids :
       /\ cache' = invalidateRecord(cache, mi, id)
       /\ last' = Call("invalidateRecord", mi, id, <<>>, Nil, FALSE, {})
  /\ nops' = nops + 1
  /\ UNCHANGED <<store, log, registry>>

RemoveEntry ==
  /\ nops < MaxOps
  /\ \E mi \in Models, id \in Ids :
       \E fi \in FieldsOf(mi) :
         \E fieldName \in {fi.name, fi.json} :
           \E c \in removeEntry(cache, mi, id, fieldName) :
             /\ cache' = c
             /\ last' = Call("removeEntry", mi, id, <<fieldName>>, Nil, FALSE,
                             get(cache, mi, id, <<fieldName>>))
  /\ nops' = nops + 1
  /\ UNCHANGED <<store, log, registry>>

CacheNext == UpdateEntry \/ AddM2MLink \/ InvalidateRecord \/ RemoveEntry

CacheSpec == CacheInit /\ [][CacheNext]_vars

(***************************************************************************)
(* Properties of the cache                                                 *)
(***************************************************************************)
IsSingleField(call) == Len(call.path) = 1
CallField(call) == PathField(call.model, call.path)
SpecialKinds == {"One2Many", "Rev2One", "Many2Many"}

\* C1: updateEntry(model, id, field, v) on a single-segment field that is not
\* one-to-many, reverse-one-to-one or many-to-many is followed by a cache in
\* which get(model, id, field) returns v and checkIfInCache is true.
C1_RoundTrip ==
  (/\ last.op = "updateEntry"
   /\ IsSingleField(last)
   /\ CallField(last).fieldType \notin SpecialKinds)
  => /\ ~last.err
     /\ get(cache, last.model, last.id, last.path) = {last.value}
     /\ checkIfInCache(cache, last.model, last.id, last.path) = {TRUE}

\* a foreign key was overwritten by another one in a cache with other records
C1_Witness ==
  /\ last.op = "updateEntry"
  /\ last.path = <<"Post">>
  /\ last.old = {I64(1)}
  /\ last.value = I64(2)
  /\ get(cache, last.model, last.id, last.path) = {I64(2)}
  /\ Cardinality(DOMAIN cache.data) >= 2

\* the many-to-many field of the related model over the same link model
Counterpart(fi) ==
  CHOOSE g \in FieldsOf(fi.relatedModel) :
    /\ g.fieldType = "Many2Many"
    /\ g.relatedModel = fi.model
    /\ g.m2mRelModel = fi.m2mRelModel
    /\ g.m2mOurField = fi.m2mTheirField
    /\ g.m2mTheirField = fi.m2mOurField

\* C2: addM2MLink(F, a, S) on a cache with no link for a is followed by a
\* cache in which getM2MLinks(F, a) is exactly the set of ids of S and in
\* which getM2MLinks(G, b) contains a for every b of S, G being the
\* counterpart of F on the related model.
C2_M2MRoundTripSymmetry ==
  [][ (/\ last'.op = "addM2MLink"
       /\ getM2MLinks(cache, CallField(last'), last'.id) = {})
      => /\ getM2MLinks(cache', CallField(last'), last'.id) = Range(last'.value.q)
         /\ \A b \in Range(last'.value.q) :
              last'.id \in getM2MLinks(cache', Counterpart(CallField(last')), b)
    ]_vars

\* two links were added to a record without links while another record of
\* the same model was already linked
C2_Witness ==
  /\ last.op = "addM2MLink"
  /\ last.old = {IdsV(<<>>)}
  /\ Len(last.value.q) = 2
  /\ getM2MLinks(cache, CallField(last), last.id) = Range(last.value.q)
  /\ \E b \in Range(last.value.q) :
       Cardinality(getM2MLinks(cache, Counterpart(CallField(last)), b)) = 2

\* C3: a write of S on the many-to-many field F of record r leaves exactly
\* the ids of S linked to r (ids linked before and not in S are gone) and
\* leaves the links of every other record of the model as they were, so that
\* two successive writes S1, S2 leave exactly S2 on r and the other records
\* untouched.
C3_M2MWriteReplaces ==
  [][ (/\ last'.op = "updateEntry"
       /\ IsSingleField(last')
       /\ CallField(last').fieldType = "Many2Many")
      => /\ ~last'.err
         /\ getM2MLinks(cache', CallField(last'), last'.id) = Range(last'.value.q)
         /\ \A r \in Ids \ {last'.id} :
              getM2MLinks(cache', CallField(last'), r)
                = getM2MLinks(cache, CallField(last'), r)
    ]_vars

\* tags [1,2] then [2] were written on a post while another post has a tag
C3_Witness ==
  /\ last.op = "updateEntry"
  /\ last.model = "Post"
  /\ last.path = <<"Tags">>
  /\ last.old = {IdsV(<<1, 2>>)}
  /\ last.value = IdsV(<<2>>)
  /\ getM2MLinks(cache, CallField(last), last.id) = {2}
  /\ \E r \in Ids \ {last.id} : getM2MLinks(cache, CallField(last), r) = {1}

IsMiss(v) == v = Nil \/ (v.t = "[]int64" /\ v.q = <<>>)

\* C4 as stated: after invalidateRecord(model, id), get reports a miss and
\* checkIfInCache is false for every field of the model, relation fields
\* included, whatever the other cached records hold.
C4_Original ==
  last.op = "invalidateRecord"
  => \A fi \in FieldsOf(last.model) :
       /\ \A v \in get(cache, last.model, last.id, <<fi.name>>) : IsMiss(v)
       /\ checkIfInCache(cache, last.model, last.id, <<fi.name>>) = {FALSE}

\* the cached records of the related model whose reverse foreign key is id
BackRefs(c, fi, id) ==
  {r.id : r \in {x \in DOMAIN c.data :
                   /\ x.model = fi.relatedModel
                   /\ Lookup(c.data[x], fi.jsonReverseFK) = I64(id)}}

\* C4 amended: after invalidateRecord(model, id), checkIfInCache is false for
\* every field of the model and get reports a miss for every field but the
\* one-to-many and reverse-one-to-one ones, for which get still answers from
\* the reverse foreign keys of the other cached records.
C4_Invalidation ==
  last.op = "invalidateRecord"
  => \A fi \in FieldsOf(last.model) :
       /\ checkIfInCache(cache, last.model, last.id, <<fi.name>>) = {FALSE}
       /\ fi.fieldType \notin {"One2Many", "Rev2One"}
            => \A v \in get(cache, last.model, last.id, <<fi.name>>) : IsMiss(v)
       /\ fi.fieldType = "One2Many"
            => \A v \in get(cache, last.model, last.id, <<fi.name>>) :
                 Range(v.q) = BackRefs(cache, fi, last.id)
       /\ fi.fieldType = "Rev2One"
            => \A v \in get(cache, last.model, last.id, <<fi.name>>) :
                 IF BackRefs(cache, fi, last.id) = {} THEN v = Nil
                 ELSE v.t = "int64" /\ v.n \in BackRefs(cache, fi, last.id)

\* a post was invalidated while a tag still references it and while the link
\* model still holds links of another post
C4_Witness ==
  /\ last.op = "invalidateRecord"
  /\ last.model = "Post"
  /\ BackRefs(cache, MustGet("Post", "Items"), last.id) # {}
  /\ \E r \in Ids \ {last.id} :
       getM2MLinks(cache, MustGet("Post", "Tags"), r) # {}

(***************************************************************************)
(* Computed fields: compute on read, triggers, stored fields, inverses     *)
(***************************************************************************)
HasField(mi, n) == <<mi, n>> \in DOMAIN FieldsByName
isComputedField(fi) == fi.compute # ""
Front(p) == SubSeq(p, 1, Len(p) - 1)

\* computeData: the dependency edges of a field, obtained by inverting the
\* Depends paths of the computed fields that end on it
DependenciesOf(fi) ==
  { [model |-> x[1].model, stored |-> x[1].stored, fieldName |-> x[1].name,
     compute |-> x[1].compute, path |-> Front(x[2])] :
    x \in { y \in {f \in FieldTable : isComputedField(f)}
                    \X UNION {f.depends : f \in FieldTable} :
            /\ y[2] \in y[1].depends
            /\ PathField(y[1].model, y[2]) = fi } }

\* Field.dependencies, as set at bootstrap
FieldDependencies == [fi \in FieldTable |-> DependenciesOf(fi)]
Dependencies(fi) == FieldDependencies[fi]

\* the state a handler works on, and the record collection it is called on
St(c, db, lg, panic, params) ==
  [cache |-> c, store |-> db, log |-> lg, panic |-> panic, params |-> params]
RC(mi, ids, ctx) == [model |-> mi, ids |-> ids, ctx |-> ctx]

Ev(ev, mi, ids, method, ret, cur, force) ==
  [ev |-> ev, model |-> mi, ids |-> ids, method |-> method, ret |-> ret,
   cur |-> cur, force |-> force]
Logged(st, e) == [st EXCEPT !.log = Append(@, e)]

\* RecordCollection.Get: the current value of a field of a record
Get(st, mi, id, f) ==
  IF Ref(mi, id) \in DOMAIN st.store
    THEN Lookup(st.store[Ref(mi, id)], MustGet(mi, f).json) ELSE Nil

\* the ids a record is related to through a relation field, in the database
RelatedIds(st, fi, id) ==
  CASE fi.fieldType \in {"One2Many", "Rev2One"} ->
         {r.id : r \in {x \in DOMAIN st.store :
                          /\ x.model = fi.relatedModel
                          /\ Lookup(st.store[x], fi.jsonReverseFK) = I64(id)}}
    [] fi.fieldType \in {"Many2One", "One2One"} ->
         LET v == Get(st, fi.model, id, fi.json)
         IN IF v.t = "int64" THEN {v.n} ELSE {}
    [] OTHER -> {}

\* Pool(model).Search(Field(path).In(ids)) for a path of one relation field
Search(st, mi, path, ids) ==
  {r.id : r \in {x \in DOMAIN st.store :
                   /\ x.model = mi
                   /\ RelatedIds(st, MustGet(mi, path[1]), x.id) \cap ids # {}}}

typesutilsIsZero(v) == v.n = 0 /\ v.q = <<>>

inverseStep_evenForced(fi, ctx, val) ==
  IF ~isComputedField(fi) THEN "continue"
  ELSE IF fi.inverse = ""
    THEN IF "doxa_allow_without_inverse" \in ctx \/ typesutilsIsZero(val)
           THEN "continue" ELSE "panic"
  ELSE "call"

\* what the loop of processInverseMethods does for one field of the map
inverseStep(fi, ctx, val) ==
  IF ~isComputedField(fi) \/ "doxa_force_compute_write" \in ctx THEN "continue"
  ELSE IF fi.inverse = ""
    THEN IF "doxa_allow_without_inverse" \in ctx \/ typesutilsIsZero(val)
           THEN "continue" ELSE "panic"
  ELSE "call"

\* processInverseMethods, for a field map with at most one computed field
RECURSIVE processInverseMethods(_, _, _, _)
processInverseMethods(st, rc, fMap, keys) ==
  IF keys = {} \/ st.panic THEN st
  ELSE LET fieldName == CHOOSE k \in keys : TRUE
           fi == MustGet(rc.model, fieldName)
           val == fMap[fieldName]
           rest == keys \ {fieldName}
           step == inverseStep(fi, rc.ctx, val)
       IN CASE step = "continue" -> processInverseMethods(st, rc, fMap, rest)
            [] step = "panic" -> [st EXCEPT !.panic = TRUE]
            [] OTHER ->
                 processInverseMethods(
                   Logged(st, Ev("inverse", rc.model, rc.ids, fi.inverse,
                                 Put(EmptyMap, fieldName, val), EmptyMap, FALSE)),
                   rc, fMap, rest)

doUpdate_always(vals, cur) == TRUE

\* the comparison of updateStoredFields: did a returned value change
doUpdate(vals, cur) ==
  \E f \in DOMAIN vals :
    /\ f # "write_date"
    /\ IF cur[f].t = "RecordSet"
         THEN Range(cur[f].q) # Range(vals[f].q)
         ELSE cur[f] # vals[f]

triggerKey_perField(dep) == dep

\* the key of toUpdate: the field name is blanked for stored fields
triggerKey(dep) == IF dep.stored THEN [dep EXCEPT !.fieldName = ""] ELSE dep

\* toUpdate of processTriggers: the field names to reset, by key
toUpdate(mi, fMap) ==
  LET deps == UNION {Dependencies(MustGet(mi, k)) :
                       k \in {n \in DOMAIN fMap : HasField(mi, n)}}
  IN [key \in {triggerKey(d) : d \in deps} |->
        {d.fieldName : d \in {x \in deps : triggerKey(x) = key}}]

\* the values of a field map that Write stores: a computed field is stored
\* only by the write of its recomputation
Persisted(rc, vals) ==
  {k \in DOMAIN vals :
     \/ ~isComputedField(MustGet(rc.model, k))
     \/ "doxa_force_compute_write" \in rc.ctx}

RECURSIVE storeValues(_, _, _, _, _)
storeValues(st, mi, id, vals, keys) ==
  IF keys = {} THEN st
  ELSE LET k == CHOOSE x \in keys : TRUE
           json == MustGet(mi, k).json
           row == IF Ref(mi, id) \in DOMAIN st.store
                    THEN st.store[Ref(mi, id)] ELSE EmptyMap
       IN storeValues(
            [st EXCEPT !.store = Put(@, Ref(mi, id), Put(row, json, vals[k])),
                       !.cache = updateEntryByRef(@, Ref(mi, id), json, vals[k])],
            mi, id, vals, keys \ {k})

RECURSIVE storeRecords(_, _, _, _)
storeRecords(st, rc, vals, ids) ==
  IF ids = {} THEN st
  ELSE LET id == CHOOSE x \in ids : \A y \in ids : x <= y
       IN storeRecords(storeValues(st, rc.model, id, vals, Persisted(rc, vals)),
                       rc, vals, ids \ {id})

\* the loop of processTriggers over the records of a computed field that is
\* not stored; each event holds the cache after (ret) and before (cur) the call
RECURSIVE removeEntries(_, _, _, _)
removeEntries(st, mi, ids, fieldName) ==
  IF ids = {} THEN st
  ELSE LET id == CHOOSE x \in ids : \A y \in ids : x <= y
           c == CHOOSE x \in removeEntry(st.cache, mi, id, fieldName) : TRUE
       IN removeEntries(
            Logged([st EXCEPT !.cache = c],
                   Ev("removeEntry", mi, {id}, fieldName, c.data, st.cache.data,
                      FALSE)),
            mi, ids \ {id}, fieldName)

WithForceComputeWrite_unmarked(ctx) == ctx

\* rec.WithContext("doxa_force_compute_write", true)
WithForceComputeWrite(ctx) == ctx \cup {"doxa_force_compute_write"}

RECURSIVE Write(_, _, _, _)
RECURSIVE processTriggers(_, _, _, _)
RECURSIVE processKeys(_, _, _, _, _)
RECURSIVE updateStoredFields(_, _, _, _, _)

\* updateStoredFields: calls computeMethod on each record of ids and writes
\* the returned values when one of them changed
updateStoredFields(st, rc, ids, computeMethod, or) ==
  IF ids = {} \/ st.panic THEN st
  ELSE LET id == CHOOSE x \in ids : \A y \in ids : x <= y
           vals == or[computeMethod][id]
           cur == [f \in DOMAIN vals |-> Get(st, rc.model, id, f)]
           st1 == Logged(st, Ev("compute", rc.model, {id}, computeMethod,
                                vals, cur, FALSE))
           st2 == IF doUpdate(vals, cur)
                    THEN Write(st1,
                               RC(rc.model, {id}, WithForceComputeWrite(rc.ctx)),
                               vals, or)
                    ELSE st1
       IN updateStoredFields(st2, rc, ids \ {id}, computeMethod, or)

processKeys(st, rc, upd, keys, or) ==
  IF keys = {} \/ st.panic THEN st
  ELSE LET cData == CHOOSE k \in keys : TRUE
           recs == IF cData.path # <<>>
                     THEN RC(cData.model,
                             Search(st, cData.model, cData.path, rc.ids), rc.ctx)
                     ELSE rc
           st1 == IF ~cData.stored
                    THEN removeEntries(st, recs.model, recs.ids, cData.fieldName)
                    ELSE updateStoredFields(st, recs, recs.ids, cData.compute, or)
       IN processKeys(st1, rc, upd, keys \ {cData}, or)

\* processTriggers: recomputes the stored fields and invalidates the other
\* computed fields that depend on the fields of fMap
processTriggers(st, rc, fMap, or) ==
  IF "doxa_no_recompute_stored_fields" \in rc.ctx THEN st
  ELSE LET upd == toUpdate(rc.model, fMap)
       IN processKeys(st, rc, upd, DOMAIN upd, or)

\* Write: one write of vals on the records of rc
Write(st, rc, vals, or) ==
  LET st1 == Logged(st, Ev("write", rc.model, rc.ids, "Write", vals, EmptyMap,
                           "doxa_force_compute_write" \in rc.ctx))
      st2 == processInverseMethods(st1, rc, vals, DOMAIN vals)
  IN IF st2.panic THEN st2
     ELSE processTriggers(storeRecords(st2, rc, vals, rc.ids), rc, vals, or)

\* the loop of computeFieldValues over the map a compute method returned,
\* taken in the order given
RECURSIVE mergeComputed(_, _, _, _, _)
mergeComputed(st, rc, fInfo, newParams, order) ==
  IF order = <<>> THEN st
  ELSE LET k == Head(order)
           key == MustGet(rc.model, k)
           id == CHOOSE x \in rc.ids : TRUE
           upd == CHOOSE r \in updateEntry(st.cache, rc.model, id,
                                           <<fInfo.name>>, newParams[k]) : TRUE
       IN IF k \notin DOMAIN newParams
            THEN mergeComputed(st, rc, fInfo, newParams, Tail(order))
            ELSE mergeComputed(
                   [st EXCEPT !.params = Put(@, key.json, newParams[k]),
                              !.cache = upd.c],
                   rc, fInfo, newParams, Tail(order))

\* computeFieldValues on one record: fields are the requested names, denied
\* the fields the user may not read, order the order maps are ranged over
RECURSIVE computeFieldValues(_, _, _, _, _, _)
computeFieldValues(st, rc, fields, or, denied, order) ==
  IF fields = <<>> THEN st
  ELSE LET fInfo == MustGet(rc.model, Head(fields))
           id == CHOOSE x \in rc.ids : TRUE
           rest == Tail(fields)
       IN IF ~isComputedField(fInfo) \/ fInfo.stored
            THEN computeFieldValues(st, rc, rest, or, denied, order)
          ELSE IF fInfo.name \in denied
            THEN computeFieldValues(st, rc, rest, or, denied, order)
          ELSE IF fInfo.name \in DOMAIN st.params
            THEN computeFieldValues(st, rc, rest, or, denied, order)
          ELSE IF checkIfInCache(st.cache, rc.model, id, <<fInfo.name>>) = {TRUE}
            THEN computeFieldValues(
                   [st EXCEPT !.params =
                      Put(@, fInfo.json,
                          CHOOSE v \in get(st.cache, rc.model, id, <<fInfo.name>>) : TRUE)],
                   rc, rest, or, denied, order)
          ELSE LET newParams == or[fInfo.compute][id]
                   st1 == Logged(st, Ev("compute", rc.model, {id}, fInfo.compute,
                                        newParams, EmptyMap, FALSE))
               IN computeFieldValues(
                    mergeComputed(st1, rc, fInfo, newParams, order),
                    rc, rest, or, denied, order)

(***************************************************************************)
(* One environment on a database of invoices and lines, under a bounded    *)
(* sequence of writes and reads of computed fields                         *)
(***************************************************************************)
Row(pairs) == [k \in {p[1] : p \in pairs} |-> (CHOOSE p \in pairs : p[1] = k)[2]]

InvoiceRow(id, total) ==
  Row({<<"id", I64(id)>>, <<"write_date", Str(1)>>, <<"discount", I64(1)>>,
       <<"tax", I64(1)>>,
       <<"total", I64(total)>>, <<"nb_lines", I64(1)>>})
LineRow(id, invoice) ==
  Row({<<"id", I64(id)>>, <<"amount", I64(1)>>, <<"invoice_id", I64(invoice)>>})

\* the databases the environment is opened on: every invoice has a total,
\* every line belongs to invoice 1 or to the invoice of its own id
InitStores ==
  { [r \in {Ref(m, i) : m \in {"Invoice", "Line"}, i \in Ids} |->
       IF r.model = "Invoice" THEN InvoiceRow(r.id, tot[r.id])
       ELSE LineRow(r.id, IF own[r.id] THEN r.id ELSE 1)] :
    tot \in [Ids -> 1..2], own \in [Ids -> BOOLEAN] }

\* what the compute methods may return
TotalRets ==
  { Row({<<"Total", I64(1)>>, <<"NbLines", I64(1)>>}),
    Row({<<"Total", I64(2)>>, <<"NbLines", I64(1)>>}),
    Row({<<"Total", I64(1)>>, <<"NbLines", I64(1)>>, <<"write_date", Str(2)>>}) }
LabelRets ==
  { Row({<<"Label", Str(1)>>}),
    Row({<<"Label", Str(1)>>, <<"Note", Str(2)>>}),
    Row({<<"Note", Str(2)>>}) }

Oracle(orT, orL) ==
  [m \in {"ComputeTotal", "ComputeLabel"} |->
     IF m = "ComputeTotal" THEN orT ELSE orL]

\* the field maps a caller writes
WriteArgs ==
  {<<"Line", ids, Row({<<"Amount", I64(2)>>}), {}>> : ids \in (SUBSET Ids) \ {{}}}
  \cup {<<"Invoice", {i}, Row({<<"Discount", I64(2)>>}), {}>> : i \in Ids}
  \cup {<<"Invoice", {i}, Row({<<"Discount", I64(2)>>, <<"Tax", I64(2)>>}), {}>> :
          i \in Ids}
  \cup {<<"Invoice", {i}, Row({<<"Total", I64(2)>>}), {}>> : i \in Ids}
  \cup {<<"Invoice", {i}, Row({<<"NbLines", a[1]>>}), a[2]>> :
          i \in Ids,
          a \in {<<I64(0), {}>>, <<I64(2), {}>>,
                 <<I64(2), {"doxa_allow_without_inverse"}>>}}

ECall(op, mi, ids, ctx, fMap, fields, denied, panic, params) ==
  [op |-> op, model |-> mi, ids |-> ids, ctx |-> ctx, fMap |-> fMap,
   fields |-> fields, denied |-> denied, panic |-> panic, params |-> params]

EngineInit ==
  /\ cache = newCache
  /\ store \in InitStores
  /\ log = <<>>
  /\ registry = EmptyMap
  /\ last = ECall("open", "", {}, {}, EmptyMap, <<>>, {}, FALSE, EmptyMap)
  /\ nops = 0

\* a caller writes fMap on the records ids of a model
UserWrite ==
  /\ nops < MaxCalls
  /\ \E w \in WriteArgs, orT \in [Ids -> TotalRets] :
       \E st \in {Write(St(cache, store, <<>>, FALSE, EmptyMap),
                         RC(w[1], w[2], w[4]), w[3],
                         Oracle(orT, [i \in Ids |-> EmptyMap]))} :
          /\ cache' = st.cache
          /\ store' = st.store
          /\ log' = st.log
          /\ last' = ECall("Write", w[1], w[2], w[4], w[3], <<>>, {}, st.panic, EmptyMap)
  /\ nops' = nops + 1
  /\ UNCHANGED registry

\* a caller reads computed fields of one invoice
ReadComputed ==
  /\ nops < MaxCalls
  /\ \E id \in Ids, fields \in {<<"Label">>, <<"Label", "Note">>},
        ret \in LabelRets, denied \in {{}, {"Label"}},
        order \in {<<"Label", "Note">>, <<"Note", "Label">>} :
       \E st \in {computeFieldValues(
                     St(cache, store, <<>>, FALSE, EmptyMap),
                     RC("Invoice", {id}, {}), fields,
                     Oracle([i \in Ids |-> EmptyMap], [i \in Ids |-> ret]),
                     denied, order)} :
          /\ cache' = st.cache
          /\ store' = st.store
          /\ log' = st.log
          /\ last' = ECall("computeFieldValues", "Invoice", {id}, {}, EmptyMap,
                           fields, denied, st.panic, st.params)
  /\ nops' = nops + 1
  /\ UNCHANGED registry

EngineNext == UserWrite \/ ReadComputed

EngineSpec == EngineInit /\ [][EngineNext]_vars

(***************************************************************************)
(* Properties of the computed fields engine                                *)
(***************************************************************************)
Events(ev, mi, id) ==
  {i \in DOMAIN log : log[i].ev = ev /\ log[i].model = mi /\ id \in log[i].ids}

\* a compared value returned by the compute call differs from the record's
Changed(e) == \E f \in (DOMAIN e.ret) \ {"write_date"} : e.ret[f] # e.cur[f]

\* C5: when the compute method called by updateStoredFields after a write
\* returns, for every field, the value the record already has, no Write is
\* issued on that record: the record has no write of a recomputation and at
\* most the one write of the caller.
C5_UnchangedNoWrite ==
  last.op = "Write"
  => \A i \in DOMAIN log :
       (/\ log[i].ev = "compute"
        /\ \A f \in DOMAIN log[i].ret : log[i].ret[f] = log[i].cur[f])
       => \A id \in log[i].ids :
            /\ \A j \in Events("write", log[i].model, id) : ~log[j].force
            /\ Cardinality(Events("write", log[i].model, id))
                 = IF last.model = log[i].model /\ id \in last.ids THEN 1 ELSE 0

\* a caller wrote Discount on an invoice, Total was recomputed to the value
\* it had and the write of the caller is the only one
C5_Witness ==
  /\ last.op = "Write"
  /\ last.model = "Invoice"
  /\ "Discount" \in DOMAIN last.fMap
  /\ Len(log) = 2
  /\ log[1].ev = "write"
  /\ log[2].ev = "compute"
  /\ log[2].ret = log[2].cur
  /\ log[2].ids = last.ids

\* C6: a write of Amount on lines calls ComputeTotal exactly once on each
\* invoice that has one of the written lines and on no other invoice, and
\* issues exactly one Write on each of these invoices for which a compared
\* value changed, none on the others.
C6_RecomputeAcrossRelation ==
  (last.op = "Write" /\ last.model = "Line")
  => \A id \in Ids :
       LET affected == \E l \in last.ids :
                         Lookup(store[Ref("Line", l)], "invoice_id") = I64(id)
           computes == Events("compute", "Invoice", id)
           writes == Events("write", "Invoice", id)
       IN /\ Cardinality(computes) = IF affected THEN 1 ELSE 0
          /\ \A i \in computes : log[i].method = "ComputeTotal"
          /\ Cardinality(writes)
               = IF affected /\ \E i \in computes : Changed(log[i]) THEN 1 ELSE 0

\* two lines of two invoices were written; both totals were recomputed, one
\* had changed and was written, the other had not
C6_Witness ==
  /\ last.op = "Write"
  /\ last.model = "Line"
  /\ Cardinality(last.ids) = 2
  /\ Cardinality({i \in DOMAIN log : log[i].ev = "compute"}) = 2
  /\ Cardinality({i \in DOMAIN log : log[i].ev = "write" /\ log[i].force}) = 1
  /\ \E i \in DOMAIN log : log[i].ev = "compute" /\ ~Changed(log[i])

\* C7: after computeFieldValues called a compute method that returned the
\* map {k1: v1, ..., kn: vn}, the result holds vi under the json name of ki
\* and the cache holds vi under field ki, for every returned field ki.
C7_MergeFieldByField ==
  last.op = "computeFieldValues"
  => \A i \in DOMAIN log :
       log[i].ev = "compute"
       => \A k \in DOMAIN log[i].ret :
            /\ Lookup(last.params, MustGet(last.model, k).json) = log[i].ret[k]
            /\ \A id \in last.ids :
                 get(cache, last.model, id, <<k>>) = {log[i].ret[k]}

(***************************************************************************)
(* The registry: declaration phase, BootStrap, bootstrapped phase          *)
(***************************************************************************)
RegModels == {"User", "Post"}
RegFieldNames == {"Name", "Nums"}
RegMethodNames == {"ComputeAge", "NewMethod"}

NewRegistry ==
  [bootstrapped |-> FALSE, fields |-> EmptyMap, updates |-> EmptyMap, methods |-> {}]

Outcome(panic, reg) == [panic |-> panic, reg |-> reg]

\* DeclareField of a scalar field definition: the properties of the new field
DeclareField(def) == [required |-> def.Required, index |-> def.Index]

fieldsAdd_unchecked(reg, key, newField) ==
  Outcome(FALSE, [reg EXCEPT !.fields = Put(@, key, newField),
                             !.updates = Put(@, key, <<>>)])

\* FieldsCollection.add: registers the field, a fatal error once the
\* registry is bootstrapped
fieldsAdd(reg, key, newField) ==
  IF reg.bootstrapped THEN Outcome(TRUE, reg)
  ELSE Outcome(FALSE, [reg EXCEPT !.fields = Put(@, key, newField),
                                  !.updates = Put(@, key, <<>>)])

\* Model.AddFields, the fields of the map taken in the order names
RECURSIVE AddFields(_, _, _, _)
AddFields(reg, m, names, def) ==
  IF names = <<>> THEN Outcome(FALSE, reg)
  ELSE LET name == Head(names)
           newField == DeclareField(def)
       IN IF <<m, name>> \in DOMAIN reg.fields THEN Outcome(TRUE, reg)
          ELSE LET r == fieldsAdd(reg, <<m, name>>, newField)
               IN IF r.panic THEN r ELSE AddFields(r.reg, m, Tail(names), def)

AddMethod_unchecked(reg, m, methodName) ==
  IF <<m, methodName>> \in reg.methods THEN Outcome(TRUE, reg)
  ELSE Outcome(FALSE, [reg EXCEPT !.methods = @ \cup {<<m, methodName>>}])

\* Model.AddMethod: a fatal error once the registry is bootstrapped, and a
\* fatal error for a method name the model already has
AddMethod(reg, m, methodName) ==
  IF reg.bootstrapped THEN Outcome(TRUE, reg)
  ELSE IF <<m, methodName>> \in reg.methods THEN Outcome(TRUE, reg)
  ELSE Outcome(FALSE, [reg EXCEPT !.methods = @ \cup {<<m, methodName>>}])

addUpdate_unchecked(reg, key, property, value) ==
  Outcome(FALSE, [reg EXCEPT !.updates[key] =
                    Append(@, [property |-> property, value |-> value])])

\* Field.addUpdate
addUpdate(reg, key, property, value) ==
  IF reg.bootstrapped THEN Outcome(TRUE, reg)
  ELSE Outcome(FALSE, [reg EXCEPT !.updates[key] =
                         Append(@, [property |-> property, value |-> value])])

\* Field.setProperty
setProperty(f, property, value) ==
  CASE property = "required" -> [f EXCEPT !.required = value]
    [] property = "index" -> [f EXCEPT !.index = value]
    [] OTHER -> f

RECURSIVE applyUpdates_lastFirst(_, _)
applyUpdates_lastFirst(f, updates) ==
  IF updates = <<>> THEN f
  ELSE applyUpdates_lastFirst(
         setProperty(f, updates[Len(updates)].property, updates[Len(updates)].value),
         SubSeq(updates, 1, Len(updates) - 1))

\* the pending updates of one field, applied in the order they were made
RECURSIVE applyUpdates(_, _)
applyUpdates(f, updates) ==
  IF updates = <<>> THEN f
  ELSE applyUpdates(setProperty(f, Head(updates).property, Head(updates).value),
                    Tail(updates))

\* processUpdates: applies the pending updates of every field, in the order
\* they were made, and empties them
processUpdates(reg) ==
  [reg EXCEPT !.fields = [k \in DOMAIN @ |-> applyUpdates(@[k], reg.updates[k])],
              !.updates = [k \in DOMAIN @ |-> <<>>]]

BootStrap_again(reg) ==
  Outcome(FALSE, processUpdates([reg EXCEPT !.bootstrapped = TRUE]))

\* BootStrap: a fatal error on a bootstrapped registry
BootStrap(reg) ==
  IF reg.bootstrapped THEN Outcome(TRUE, reg)
  ELSE Outcome(FALSE, processUpdates([reg EXCEPT !.bootstrapped = TRUE]))

BootStrapped(reg) == reg.bootstrapped

RECURSIVE SumLen(_, _)
SumLen(f, keys) ==
  IF keys = {} THEN 0
  ELSE LET k == CHOOSE x \in keys : TRUE IN Len(f[k]) + SumLen(f, keys \ {k})
Pending(reg) == SumLen(reg.updates, DOMAIN reg.updates)

RCall(op, m, names, property, value, panic) ==
  [op |-> op, model |-> m, names |-> names, property |-> property,
   value |-> value, panic |-> panic]

RegistryInit ==
  /\ registry = NewRegistry
  /\ last = RCall("init", "", <<>>, "", FALSE, FALSE)
  /\ cache = newCache
  /\ store = EmptyMap
  /\ log = <<>>
  /\ nops = 0

\* a call of Model.AddFields with one or two field definitions
CallAddFields ==
  /\ \E m \in RegModels, names \in {<<"Name">>, <<"Nums">>, <<"Name", "Nums">>,
                                   <<"Nums", "Name">>} :
       \E r \in {AddFields(registry, m, names, [Required |-> FALSE, Index |-> TRUE])} :
         /\ registry' = r.reg
         /\ last' = RCall("AddFields", m, names, "", FALSE, r.panic)
  /\ UNCHANGED <<cache, store, log, nops>>

\* a call of SetRequired or SetIndex on a declared field
CallSetter ==
  /\ registry.bootstrapped \/ Pending(registry) < MaxUpdates
  /\ \E key \in DOMAIN registry.fields, property \in {"required", "index"},
        value \in BOOLEAN :
       \E r \in {addUpdate(registry, key, property, value)} :
         /\ registry' = r.reg
         /\ last' = RCall("Set", key[1], <<key[2]>>, property, value, r.panic)
  /\ UNCHANGED <<cache, store, log, nops>>

\* a call of Model.AddMethod on the User model
CallAddMethod ==
  /\ \E methodName \in RegMethodNames :
       \E r \in {AddMethod(registry, "User", methodName)} :
         /\ registry' = r.reg
         /\ last' = RCall("AddMethod", "User", <<methodName>>, "", FALSE, r.panic)
  /\ UNCHANGED <<cache, store, log, nops>>

CallBootStrap ==
  /\ \E r \in {BootStrap(registry)} :
       /\ registry' = r.reg
       /\ last' = RCall("BootStrap", "", <<>>, "", FALSE, r.panic)
  /\ UNCHANGED <<cache, store, log, nops>>

RegistryNext == CallAddFields \/ CallSetter \/ CallAddMethod \/ CallBootStrap

RegistrySpec == RegistryInit /\ [][RegistryNext]_vars

\* C8: once the registry is bootstrapped, a field setter fails with a fatal
\* error and leaves the properties and the pending updates of every field
\* unchanged.
C8_SetterAfterBootstrap ==
  [][ (registry.bootstrapped /\ last'.op = "Set")
      => /\ last'.panic
         /\ registry' = registry ]_vars

\* a setter failed on a bootstrapped registry that holds a field whose
\* property was set by a setter before BootStrap
C8_Witness ==
  /\ registry.bootstrapped
  /\ last.op = "Set"
  /\ last.panic
  /\ \E k \in DOMAIN registry.fields : registry.fields[k].required

C10_BootStrapOnce ==
  [][ /\ (BootStrapped(registry) /\ last'.op = "BootStrap")
         => (last'.panic /\ registry' = registry)
      /\ (~BootStrapped(registry) /\ last'.op = "BootStrap")
         => (~last'.panic /\ BootStrapped(registry'))
      /\ BootStrapped(registry) => BootStrapped(registry') ]_vars

\* BootStrap was called a second time and failed
C10_Witness ==
  /\ BootStrapped(registry)
  /\ last.op = "BootStrap"
  /\ last.panic

\* C11: once the registry is bootstrapped, Model.AddMethod fails with a fatal
\* error whether or not the model already has a method of that name, and the
\* method collection of every model stays what it was.
C11_AddMethodAfterBootstrap ==
  [][ /\ (registry.bootstrapped /\ last'.op = "AddMethod")
         => (last'.panic /\ registry' = registry)
      /\ registry.bootstrapped => registry'.methods = registry.methods ]_vars

\* AddMethod failed on a bootstrapped registry for a name the model does not
\* have, while the model has another method declared before BootStrap
C11_Witness ==
  /\ registry.bootstrapped
  /\ last.op = "AddMethod"
  /\ last.panic
  /\ <<last.model, last.names[1]>> \notin registry.methods
  /\ \E n \in RegMethodNames : <<last.model, n>> \in registry.methods

\* the value of the last pending update of a property, or the current value
\* of the property when no pending update names it
LastSet(updates, property, current) ==
  LET idx == {i \in DOMAIN updates : updates[i].property = property}
  IN IF idx = {} THEN current
     ELSE updates[CHOOSE i \in idx : \A j \in idx : j <= i].value

\* C12: in the declaration phase a setter leaves every property of every
\* field as it is and appends exactly one entry to the pending updates of its
\* field; the next BootStrap gives every property the value of the last
\* setter call made for it, and leaves a property no setter named unchanged.
C12_SettersDeferred ==
  [][ /\ (~registry.bootstrapped /\ last'.op = "Set")
         => /\ ~last'.panic
            /\ registry'.fields = registry.fields
            /\ registry'.updates =
                 [registry.updates EXCEPT ![<<last'.model, last'.names[1]>>] =
                    Append(@, [property |-> last'.property, value |-> last'.value])]
      /\ (~registry.bootstrapped /\ last'.op = "BootStrap")
         => \A k \in DOMAIN registry.fields :
              /\ registry'.fields[k].required =
                   LastSet(registry.updates[k], "required", registry.fields[k].required)
              /\ registry'.fields[k].index =
                   LastSet(registry.updates[k], "index", registry.fields[k].index) ]_vars

\* BootStrap applied two pending updates of one field: the declared values
\* (required false, index true) are both replaced
C12_Witness ==
  /\ registry.bootstrapped
  /\ last.op = "BootStrap"
  /\ ~last.panic
  /\ \E k \in DOMAIN registry.fields :
       registry.fields[k].required /\ ~registry.fields[k].index

(***************************************************************************)
(* The table join resolver and the query builder                           *)
(***************************************************************************)
MaxPathLen == 3

sqlSep == "__"

\* Model.tableName of the models and of the link model
TableName(mi) ==
  CASE mi = "Post" -> "post" [] mi = "Tag" -> "tag"
    [] mi = "Invoice" -> "invoice" [] mi = "Line" -> "line"
    [] mi = "PostTagRel" -> "post_tag_rel"
    [] OTHER -> "rel"

\* the adapter's quoting of a table name
quoteTableName(name) == "\"" \o name \o "\""

\* fieldtype.IsFKRelationType
IsFKRelationType(fieldType) == fieldType \in {"Many2One", "One2One"}

\* jsonizePath on a field of the link model: the column of an endpoint
LinkColumn(name) ==
  CASE name = "Post" -> "post_id" [] name = "Tag" -> "tag_id"
    [] OTHER -> "rel_id"

\* jsonizePath(fi.relatedModel, fi.reverseFK)
jsonizePath(mi, path) == MustGet(mi, path).json

tableJoin(tableName, joined, innerJoin, field, otherTable, otherField, alias, expr) ==
  [tableName |-> tableName, joined |-> joined, innerJoin |-> innerJoin,
   field |-> field, otherTable |-> otherTable, otherField |-> otherField,
   alias |-> alias, expr |-> expr]

\* tableJoin.sqlString, as the sequence of the words of the clause;
\* otherTable holds the alias of the join it points to
sqlString(t) ==
  IF ~t.joined THEN <<t.tableName, t.alias>>
  ELSE << (IF t.innerJoin THEN "INNER " ELSE "LEFT ") \o "JOIN", t.tableName,
          t.alias, "ON", t.otherTable, ".", t.otherField, "=", t.alias, ".",
          t.field >>

Joins(panic, joins) == [panic |-> panic, joins |-> joins]

m2mLinkJoin_theirColumn(fi, curTJ, alias) ==
  tableJoin(quoteTableName(TableName(fi.m2mRelModel)), TRUE, FALSE,
            LinkColumn(fi.m2mTheirField), curTJ.alias, "id",
            quoteTableName(alias), LinkColumn(fi.m2mOurField))

\* the relation table join of a many-to-many field
m2mLinkJoin(fi, curTJ, alias) ==
  tableJoin(quoteTableName(TableName(fi.m2mRelModel)), TRUE, FALSE,
            LinkColumn(fi.m2mOurField), curTJ.alias, "id",
            quoteTableName(alias), LinkColumn(fi.m2mTheirField))

\* the kind of the join of a relation field: inner when the field is required
innerJoin_never(fi) == FALSE
innerJoin(fi) == fi.required

\* the loop of generateTableJoins from segment i on
RECURSIVE joinsLoop(_, _, _, _, _, _)
joinsLoop(fieldExprs, i, curMI, curTJ, alias, joins) ==
  IF i > Len(fieldExprs) THEN Joins(FALSE, joins)
  ELSE IF ~HasField(curMI, fieldExprs[i]) THEN Joins(TRUE, <<>>)
  ELSE
    LET expr == fieldExprs[i]
        exprsLen == Len(fieldExprs)
        next(fi, tj, nextTJ, alias2) ==
          joinsLoop(fieldExprs, i + 1, fi.relatedModel, nextTJ, alias2,
                    (IF fi.fieldType = "Many2Many" THEN Append(joins, tj) ELSE joins)
                      \o <<nextTJ>>)
        join(fi, tj, linkAlias, field) ==
          LET isM2M == fi.fieldType = "Many2Many"
              isRev == fi.fieldType \in {"One2Many", "Rev2One"}
              nextExpr == IF i < exprsLen THEN fieldExprs[i + 1] ELSE ""
              tjExpr == IF (isM2M \/ isRev) /\ nextExpr = "" THEN "id" ELSE nextExpr
              otherField == CASE isM2M -> LinkColumn(fi.m2mTheirField)
                              [] isRev -> "id"
                              [] OTHER -> expr
              other == IF isM2M THEN tj ELSE curTJ
              alias2 == (IF isM2M THEN linkAlias ELSE alias) \o sqlSep
                          \o TableName(fi.relatedModel)
          IN next(fi, tj,
                  tableJoin(quoteTableName(TableName(fi.relatedModel)), TRUE,
                            innerJoin(fi), field, other.alias, otherField,
                            quoteTableName(alias2), tjExpr),
                  alias2)
        link(fi, linkAlias) ==
          join(fi, m2mLinkJoin(fi, curTJ, linkAlias), linkAlias,
               IF fi.fieldType \in {"One2Many", "Rev2One"}
                 THEN jsonizePath(fi.relatedModel, fi.jsonReverseFK)
                 ELSE "id")
        segment(fi) ==
          IF fi.relatedModel = "" \/ (i = exprsLen /\ IsFKRelationType(fi.fieldType))
            THEN Joins(FALSE, joins)
            ELSE link(fi, alias \o sqlSep \o TableName(fi.m2mRelModel))
    IN segment(MustGet(curMI, expr))

\* Query.generateTableJoins on a query of model mi: a fatal error, or the
\* chain of joins
generateTableJoins(mi, fieldExprs) ==
  LET currentTableName == quoteTableName(TableName(mi))
      curTJ == tableJoin(currentTableName, FALSE, FALSE, "", "", "",
                         currentTableName,
                         IF Len(fieldExprs) > 0 THEN fieldExprs[1] ELSE "")
  IN joinsLoop(fieldExprs, 1, mi, curTJ, TableName(mi), <<curTJ>>)

\* strings.Join
RECURSIVE Join(_, _)
Join(strs, sep) ==
  IF strs = <<>> THEN ""
  ELSE IF Len(strs) = 1 THEN strs[1]
  ELSE strs[1] \o sep \o Join(Tail(strs), sep)

\* the concatenation of a sequence of word sequences, sep between them
RECURSIVE JoinWords(_, _)
JoinWords(seqs, sep) ==
  IF seqs = <<>> THEN <<>>
  ELSE IF Len(seqs) = 1 THEN seqs[1]
  ELSE seqs[1] \o sep \o JoinWords(Tail(seqs), sep)

\* jsonizeExpr stops with a fatal error on a path it cannot resolve: a
\* segment that is not a field of the model reached, or a segment after a
\* field that is not a relation
RECURSIVE Resolvable(_, _)
Resolvable(mi, exprs) ==
  LET through(relatedModel) ==
        relatedModel # "" /\ Resolvable(relatedModel, Tail(exprs))
  IN \/ exprs = <<>>
     \/ /\ HasField(mi, Head(exprs))
        /\ \/ Len(exprs) = 1
           \/ through(MustGet(mi, Head(exprs)).relatedModel)

\* Query.joinedFieldExpression: alias.expr of the last join of the path
joinedFieldExpression(mi, exprs, withAlias) ==
  LET lastJoin(joins) == joins[Len(joins)]
      expression(r) ==
        IF r.panic THEN [panic |-> TRUE, sql |-> <<>>]
        ELSE [panic |-> FALSE,
              sql |-> <<lastJoin(r.joins).alias, ".", lastJoin(r.joins).expr>> \o
                      (IF withAlias THEN <<"AS", Join(exprs, sqlSep)>> ELSE <<>>)]
  IN expression(generateTableJoins(mi, exprs))

\* nbutils.CastToInteger
CastToInteger(val) ==
  IF val.t \in {"int64", "bool"} THEN [err |-> FALSE, val |-> val.n]
  ELSE [err |-> TRUE, val |-> 0]

\* the operators of a predicate
Operators == {"=", "!=", ">", "in"}

\* the adapter's operatorSQL: the operator and the placeholder
operatorSQL(operator, arg) == [sql |-> <<operator, "?">>, arg |-> arg]

\* a predicate of a condition: a comparison of a field with an argument, or a
\* nested condition (isCond), joined to what precedes it by AND or by OR
\* (isOr), negated or not (isNot)
predicate(exprs, operator, arg) ==
  [exprs |-> exprs, operator |-> operator, arg |-> arg, cond |-> <<>>,
   isOr |-> FALSE, isNot |-> FALSE, isCond |-> FALSE]

SQL(panic, sql, args) == [panic |-> panic, sql |-> sql, args |-> args]

nullArg_nilOnly(fi, arg) == arg

\* the argument of a predicate: a 0 on a foreign key stands for nil
nullArg(fi, arg) ==
  IF /\ IsFKRelationType(fi.fieldType)
     /\ ~CastToInteger(arg).err
     /\ CastToInteger(arg).val = 0
    THEN Nil ELSE arg

RECURSIVE conditionSQLClause(_, _)

\* Query.predicateSQLClause
predicateSQLClause(mi, p) ==
  IF p.isCond THEN conditionSQLClause(mi, p.cond)
  ELSE IF ~Resolvable(mi, p.exprs) \/ p.exprs = <<>> THEN SQL(TRUE, <<>>, <<>>)
  ELSE
    LET clause(field, arg, opSQL) ==
          IF field.panic THEN SQL(TRUE, <<>>, <<>>)
          ELSE IF arg = Nil
            THEN CASE p.operator = "=" -> SQL(FALSE, field.sql \o <<"IS NULL">>, <<>>)
                   [] p.operator = "!=" ->
                        SQL(FALSE, field.sql \o <<"IS NOT NULL">>, <<>>)
                   [] OTHER -> SQL(TRUE, <<>>, <<>>)
            ELSE SQL(FALSE, field.sql \o opSQL.sql, <<opSQL.arg>>)
        withArg(field, arg) == clause(field, arg, operatorSQL(p.operator, arg))
        onField(exprs) ==
          withArg(joinedFieldExpression(mi, exprs, FALSE),
                  nullArg(PathField(mi, exprs), p.arg))
    IN onField(jsonizeExpr(mi, p.exprs))

\* the loop of Query.conditionSQLClause over the predicates of a condition;
\* the statement is a sequence of words
RECURSIVE conditionLoop(_, _, _, _)
conditionLoop(mi, predicates, first, acc) ==
  IF predicates = <<>> \/ acc.panic THEN acc
  ELSE LET op(p) == (IF p.isOr THEN <<"OR">> ELSE <<"AND">>)
                      \o (IF p.isNot THEN <<"NOT">> ELSE <<>>)
           clause(p, v) ==
             IF v.panic THEN SQL(TRUE, <<>>, <<>>)
             ELSE SQL(FALSE,
                      CASE first ->
                             (IF p.isNot THEN <<"NOT">> ELSE <<>>) \o v.sql
                        [] ~first /\ p.isCond ->
                             <<"(">> \o acc.sql \o <<")">> \o op(p)
                               \o <<"(">> \o v.sql \o <<")">>
                        [] OTHER -> acc.sql \o op(p) \o v.sql,
                      acc.args \o v.args)
       IN conditionLoop(mi, Tail(predicates), FALSE,
                        clause(Head(predicates),
                               predicateSQLClause(mi, Head(predicates))))

conditionSQLClause(mi, predicates) ==
  conditionLoop(mi, predicates, TRUE, SQL(FALSE, <<>>, <<>>))

\* Query.sqlWhereClause
sqlWhereClause(mi, predicates) ==
  LET where(c) ==
        IF c.panic \/ c.sql = <<>> THEN c
        ELSE SQL(FALSE, <<"WHERE">> \o c.sql, c.args)
  IN where(conditionSQLClause(mi, predicates))

\* a nil pointer to an interface value: the value of a null foreign key
NullPtr == [t |-> "*interface{}", n |-> 0, q |-> <<>>]

appendParam_front(vals, v) == <<v>> \o vals

\* vals = append(vals, v)
appendParam(vals, v) == Append(vals, v)

\* the loop of insertQuery over data, ranged over in the order keys: the
\* columns and the values, a null foreign key that is not required skipped
RECURSIVE insertLoop(_, _, _, _)
insertLoop(mi, data, keys, acc) ==
  IF keys = <<>> THEN acc
  ELSE LET step(fi, v) ==
             IF /\ IsFKRelationType(fi.fieldType)
                /\ ~fi.required
                /\ v.t = "*interface{}"
               THEN acc
               ELSE [cols |-> Append(acc.cols, <<fi.json>>),
                     vals |-> appendParam(acc.vals, v)]
       IN insertLoop(mi, data, Tail(keys),
                     step(MustGet(mi, Head(keys)), data[Head(keys)]))

\* Query.insertQuery: a fatal error on an empty map; strings.Repeat panics on
\* the negative count it is given when every entry was skipped
insertQuery(mi, data, keys) ==
  IF DOMAIN data = {} THEN SQL(TRUE, <<>>, <<>>)
  ELSE LET statement(r) ==
             IF Len(r.cols) = 0 THEN SQL(TRUE, <<>>, <<>>)
             ELSE SQL(FALSE,
                      <<"INSERT INTO", quoteTableName(TableName(mi)), "(">>
                        \o JoinWords(r.cols, <<",">>)
                        \o <<")", "VALUES", "(">>
                        \o JoinWords([j \in 1..Len(r.cols) |-> <<"?">>], <<",">>)
                        \o <<")", "RETURNING id">>,
                      r.vals)
       IN statement(insertLoop(mi, data, keys, [cols |-> <<>>, vals |-> <<>>]))

\* Query.updateQuery: a fatal error on an empty map; the values of the SET
\* clause are followed by the arguments of the WHERE clause
updateQuery(mi, predicates, data, keys) ==
  IF DOMAIN data = {} THEN SQL(TRUE, <<>>, <<>>)
  ELSE LET statement(w) ==
             IF w.panic THEN SQL(TRUE, <<>>, <<>>)
             ELSE SQL(FALSE,
                      <<"UPDATE", quoteTableName(TableName(mi)), "SET">>
                        \o JoinWords([i \in DOMAIN keys |->
                                        <<MustGet(mi, keys[i]).json, "=", "?">>],
                                     <<",">>)
                        \o w.sql,
                      [i \in DOMAIN keys |-> data[keys[i]]] \o w.args)
       IN statement(sqlWhereClause(mi, predicates))

\* the joined field expression of every path of a list
RECURSIVE fieldExpressions(_, _, _)
fieldExpressions(mi, exprsList, withAlias) ==
  IF exprsList = <<>> THEN [panic |-> FALSE, sqls |-> <<>>]
  ELSE LET expressions(f, rest) ==
             IF f.panic \/ rest.panic THEN [panic |-> TRUE, sqls |-> <<>>]
             ELSE [panic |-> FALSE, sqls |-> <<f.sql>> \o rest.sqls]
       IN expressions(joinedFieldExpression(mi, Head(exprsList), withAlias),
                      fieldExpressions(mi, Tail(exprsList), withAlias))

\* Query.fieldsSQL
fieldsSQL(mi, fieldExprs) ==
  LET joined(f) == [panic |-> f.panic, sql |-> JoinWords(f.sqls, <<",">>)]
  IN joined(fieldExpressions(mi, fieldExprs, TRUE))

\* Query.sqlOrderByClause: orders are pairs of a path and a direction
sqlOrderByClause(mi, orders) ==
  LET ordered(f) ==
        IF f.panic THEN [panic |-> TRUE, sql |-> <<>>]
        ELSE IF orders = <<>> THEN [panic |-> FALSE, sql |-> <<>>]
        ELSE [panic |-> FALSE,
              sql |-> <<"ORDER BY">> \o
                      JoinWords([i \in DOMAIN orders |->
                                   f.sqls[i] \o <<orders[i].dir>>],
                                <<",">>)]
  IN ordered(fieldExpressions(mi, [i \in DOMAIN orders |-> orders[i].exprs], FALSE))

\* Query.sqlGroupByClause
sqlGroupByClause(mi, groups) ==
  LET grouped(f) ==
        IF f.panic THEN [panic |-> TRUE, sql |-> <<>>]
        ELSE [panic |-> FALSE, sql |-> <<"GROUP BY">> \o JoinWords(f.sqls, <<",">>)]
  IN grouped(fieldExpressions(mi, groups, FALSE))

\* Query.fieldsGroupSQL, every field aggregated with aggFnct
RECURSIVE fieldsGroupLoop(_, _, _)
fieldsGroupLoop(mi, fieldExprs, aggFnct) ==
  IF fieldExprs = <<>> THEN [panic |-> FALSE, sql |-> <<"count(1)", "AS", "__count">>]
  ELSE LET lastJoin(joins) == joins[Len(joins)]
           aggregated(r, rest) ==
             IF r.panic \/ rest.panic THEN [panic |-> TRUE, sql |-> <<>>]
             ELSE [panic |-> FALSE,
                   sql |-> <<aggFnct, "(", lastJoin(r.joins).alias, ".",
                             lastJoin(r.joins).expr, ")",
                             "AS", Join(Head(fieldExprs), sqlSep), ",">> \o rest.sql]
       IN aggregated(generateTableJoins(mi, Head(fieldExprs)),
                     fieldsGroupLoop(mi, Tail(fieldExprs), aggFnct))

fieldsGroupSQL(mi, fieldExprs, aggFnct) == fieldsGroupLoop(mi, fieldExprs, aggFnct)

Tables(panic, res, joinsMap, aliasIndex) ==
  [panic |-> panic, res |-> res, joinsMap |-> joinsMap, aliasIndex |-> aliasIndex]

shortAlias_always(j, aliasIndex) == quoteTableName("T" \o ToString(aliasIndex))

\* the alias tablesSQL gives to a join it has not seen yet
shortAlias(j, aliasIndex) ==
  IF aliasIndex = 0 THEN j.alias
  ELSE quoteTableName("T" \o ToString(aliasIndex))

\* the inner loop of tablesSQL over the joins of one path
RECURSIVE tablesOfJoins(_, _)
tablesOfJoins(tJoins, acc) ==
  IF tJoins = <<>> THEN acc
  ELSE LET j == Head(tJoins)
       IN tablesOfJoins(Tail(tJoins),
            IF j.alias \in DOMAIN acc.joinsMap THEN acc
            ELSE Tables(FALSE, acc.res \o sqlString(j),
                        Put(acc.joinsMap, j.alias, shortAlias(j, acc.aliasIndex)),
                        acc.aliasIndex + 1))

\* the outer loop of tablesSQL over the paths
RECURSIVE tablesLoop(_, _, _)
tablesLoop(mi, fExprs, acc) ==
  IF fExprs = <<>> \/ acc.panic THEN acc
  ELSE LET tables(r) ==
             IF r.panic THEN Tables(TRUE, <<>>, acc.joinsMap, 0)
             ELSE tablesOfJoins(r.joins, acc)
       IN tablesLoop(mi, Tail(fExprs), tables(generateTableJoins(mi, Head(fExprs))))

\* Query.tablesSQL: the FROM clause and the map from the aliases of the joins
\* to the short aliases
tablesSQL(mi, fExprs) == tablesLoop(mi, fExprs, Tables(FALSE, <<>>, EmptyMap, 0))

\* strutils.Substitute, word by word
Substitute(sql, mapping) ==
  [i \in DOMAIN sql |-> IF sql[i] \in DOMAIN mapping THEN mapping[sql[i]] ELSE sql[i]]

\* jsonizeExpr on every path of a list, a fatal error on an unresolvable one
jsonizeAll(mi, paths) ==
  IF \E i \in DOMAIN paths : ~Resolvable(mi, paths[i]) \/ paths[i] = <<>>
    THEN [panic |-> TRUE, exprs |-> <<>>]
    ELSE [panic |-> FALSE, exprs |-> [i \in DOMAIN paths |-> jsonizeExpr(mi, paths[i])]]

\* Query.selectData
selectData(mi, fields, predicates, orders) ==
  LET data(f, o, c) ==
        [panic |-> f.panic \/ o.panic \/ c.panic,
         fieldExprs |-> f.exprs \o o.exprs,
         allExprs |-> f.exprs \o o.exprs \o c.exprs]
  IN data(jsonizeAll(mi, fields),
          jsonizeAll(mi, [i \in DOMAIN orders |-> orders[i].exprs]),
          jsonizeAll(mi, [i \in DOMAIN predicates |-> predicates[i].exprs]))

Parts(panic, fieldsP, tablesP, whereP, groupP, orderP, args) ==
  [panic |-> panic, fields |-> fieldsP, tables |-> tablesP, where |-> whereP,
   group |-> groupP, order |-> orderP, args |-> args]

NoParts == Parts(TRUE, <<>>, <<>>, <<>>, <<>>, <<>>, <<>>)

\* a Query of the model mi
Query(mi, predicates, groups, orders) ==
  [model |-> mi, cond |-> predicates, groups |-> groups, orders |-> orders]

\* Query.selectQuery: the parts of the statement after the substitution of the
\* aliases
selectQuery(q, fields) ==
  IF q.groups # <<>> THEN NoParts
  ELSE
    LET parts(f, t, w, o) ==
          IF f.panic \/ t.panic \/ w.panic \/ o.panic THEN NoParts
          ELSE Parts(FALSE, Substitute(f.sql, t.joinsMap),
                     Substitute(t.res, t.joinsMap),
                     Substitute(w.sql, t.joinsMap), <<>>,
                     Substitute(o.sql, t.joinsMap), w.args)
        select(d) ==
          IF d.panic THEN NoParts
          ELSE parts(fieldsSQL(q.model, d.fieldExprs),
                     tablesSQL(q.model, d.allExprs),
                     sqlWhereClause(q.model, q.cond),
                     sqlOrderByClause(q.model, q.orders))
    IN select(selectData(q.model, fields, q.cond, q.orders))

\* Query.selectGroupQuery, every field aggregated with aggFnct
selectGroupQuery(q, fields, aggFnct) ==
  IF q.groups = <<>> THEN NoParts
  ELSE
    LET parts(f, t, w, g, o) ==
          IF f.panic \/ t.panic \/ w.panic \/ g.panic \/ o.panic THEN NoParts
          ELSE Parts(FALSE, Substitute(f.sql, t.joinsMap),
                     Substitute(t.res, t.joinsMap),
                     Substitute(w.sql, t.joinsMap), Substitute(g.sql, t.joinsMap),
                     Substitute(o.sql, t.joinsMap), w.args)
        select(d, g0) ==
          IF d.panic \/ g0.panic THEN NoParts
          ELSE parts(fieldsGroupSQL(q.model, d.fieldExprs, aggFnct),
                     tablesSQL(q.model, d.allExprs),
                     sqlWhereClause(q.model, q.cond),
                     sqlGroupByClause(q.model, g0.exprs),
                     sqlOrderByClause(q.model, q.orders))
    IN select(selectData(q.model, fields, q.cond, q.orders),
              jsonizeAll(q.model, q.groups))

\* the statement: the parts in the order of the format string
Statement(parts) ==
  <<"SELECT", "DISTINCT">> \o parts.fields \o <<"FROM">> \o parts.tables \o
  parts.where \o parts.group \o parts.order

(***************************************************************************)
(* The query builder applied to one path of a query on Post or Tag         *)
(***************************************************************************)
\* the segments the paths are made of: the json names of the fields of Post
\* and Tag, and a name that is no field
QNames == {"id", "tags", "items_ids", "main_id", "posts", "post_id", "owner_id",
           "nope"}
QPathsUpTo(n) == UNION {[1..k -> QNames] : k \in 1..n}
QPaths == QPathsUpTo(MaxPathLen)

\* the arguments of the predicates
QArgs == {Nil, I64(0), I64(1), Str(0)}

\* the names a many-to-many declaration is made with
DeclModels == {"Invoice", "Line", "Post", "Tag"}
EndpointNames == {"", "Child", "Parent"}

\* the conditions rendered: up to MaxPredicates predicates on a field, the
\* k-th one a comparison with the argument k or a nested condition of two
\* comparisons, each joined by AND or OR and negated or not
MaxPredicates == 3

Flagged(p, isOr, isNot) == [p EXCEPT !.isOr = isOr, !.isNot = isNot]
Leaf(exprs, k) == predicate(exprs, "=", I64(k))
Nested(exprs, innerOr) ==
  [predicate(<<>>, "", Nil) EXCEPT
     !.isCond = TRUE,
     !.cond = <<Leaf(exprs, MaxPredicates + 1),
                Flagged(Leaf(exprs, MaxPredicates + 2), innerOr, FALSE)>>]
Conds(exprs) ==
  { [i \in 1..n |->
       Flagged(IF i = nested THEN Nested(exprs, innerOr) ELSE Leaf(exprs, i),
               i > 1 /\ isOr[i], isNot[i])] :
    n \in 1..MaxPredicates, nested \in 0..MaxPredicates, innerOr \in BOOLEAN,
    isOr \in [1..MaxPredicates -> BOOLEAN],
    isNot \in [1..MaxPredicates -> BOOLEAN] }

\* the field maps inserted and written: a value for some of the columns of
\* the model, a foreign key being an id or null
DataValues(fi) ==
  CASE fi.name = "ID" -> {I64(1)}
    [] fi.name = "Title" -> {Str(2)}
    [] fi.name = "Post" -> {I64(3), NullPtr}
    [] fi.name = "Owner" -> {I64(4), NullPtr}
    [] OTHER -> {}
DataKeys(mi) == {f.name : f \in {g \in FieldsOf(mi) : DataValues(g) # {}}}
FieldMaps(mi) ==
  UNION { {d \in [K -> UNION {DataValues(MustGet(mi, k)) : k \in K}] :
             \A k \in K : d[k] \in DataValues(MustGet(mi, k))} :
          K \in SUBSET DataKeys(mi) }

\* the one-segment paths of a model, by json name
Columns(mi) == {<<f.json>> : f \in FieldsOf(mi)}

\* the orders in which a map can be ranged over
Orders(S) ==
  {o \in [1..Cardinality(S) -> S] : \A x \in S : \E i \in DOMAIN o : o[i] = x}

QCall(op, mi, exprs, other, operator, arg, out) ==
  [op |-> op, model |-> mi, exprs |-> exprs, other |-> other,
   operator |-> operator, arg |-> arg, out |-> out]

QueryInit ==
  /\ \E mi \in Models, exprs \in QPaths :
       last = QCall("input", mi, exprs, <<>>, "", Nil, Nil)
  /\ cache = newCache
  /\ store = EmptyMap
  /\ log = <<>>
  /\ registry = NewRegistry
  /\ nops = 0

\* generateTableJoins on the path
GenerateTableJoins ==
  /\ last.op = "input"
  /\ last' = QCall("generateTableJoins", last.model, last.exprs, <<>>, "", Nil,
                   generateTableJoins(last.model, last.exprs))
  /\ UNCHANGED <<cache, store, log, registry, nops>>

\* predicateSQLClause on a leaf predicate on the path
PredicateSQLClause ==
  /\ last.op = "input"
  /\ \E operator \in Operators, arg \in QArgs :
       last' = QCall("predicateSQLClause", last.model, last.exprs, <<>>, operator, arg,
                     predicateSQLClause(last.model,
                                        predicate(last.exprs, operator, arg)))
  /\ UNCHANGED <<cache, store, log, registry, nops>>

\* conditionSQLClause on a condition over the field of a one-segment path
ConditionSQLClause ==
  /\ last.op = "input"
  /\ last.exprs \in Columns(last.model)
  /\ \E c \in Conds(last.exprs) :
       last' = QCall("conditionSQLClause", last.model, last.exprs, c, "", Nil,
                     conditionSQLClause(last.model, c))
  /\ UNCHANGED <<cache, store, log, registry, nops>>

\* insertQuery of a field map on the model
InsertQuery ==
  /\ last.op = "input"
  /\ last.exprs \in Columns(last.model)
  /\ \E data \in FieldMaps(last.model) :
       \E keys \in Orders(DOMAIN data) :
         last' = QCall("insertQuery", last.model, last.exprs, keys, <<>>, data,
                       insertQuery(last.model, data, keys))
  /\ UNCHANGED <<cache, store, log, registry, nops>>

\* updateQuery of a field map on the records that a condition on the path
\* selects
UpdateQuery ==
  /\ last.op = "input"
  /\ last.exprs \in Columns(last.model)
  /\ \E data \in FieldMaps(last.model),
        cond \in {<<>>} \cup {<<predicate(last.exprs, "=", a)>> : a \in {Nil, I64(5)}} :
       \E keys \in Orders(DOMAIN data) :
         last' = QCall("updateQuery", last.model, last.exprs, keys, cond, data,
                       updateQuery(last.model, cond, data, keys))
  /\ UNCHANGED <<cache, store, log, registry, nops>>

\* tablesSQL on the path and a second path
TablesSQL ==
  /\ last.op = "input"
  /\ \E other \in {last.exprs} \cup QPathsUpTo(1) :
       last' = QCall("tablesSQL", last.model, last.exprs, other, "", Nil,
                     tablesSQL(last.model, <<last.exprs, other>>))
  /\ UNCHANGED <<cache, store, log, registry, nops>>

\* selectQuery of the path, with a condition and an order on a second path
SelectQuery ==
  /\ last.op = "input"
  /\ \E other \in {last.exprs} \cup QPathsUpTo(1) :
       last' = QCall("selectQuery", last.model, last.exprs, other, "=", I64(1),
                     selectQuery(Query(last.model,
                                       <<predicate(other, "=", I64(1))>>, <<>>,
                                       <<[exprs |-> other, dir |-> "desc"]>>),
                                 <<last.exprs>>))
  /\ UNCHANGED <<cache, store, log, registry, nops>>

\* selectGroupQuery of the path, with a condition and a group on a second path
SelectGroupQuery ==
  /\ last.op = "input"
  /\ \E other \in {last.exprs} \cup QPathsUpTo(1) :
       last' = QCall("selectGroupQuery", last.model, last.exprs, other, "=", I64(1),
                     selectGroupQuery(Query(last.model,
                                            <<predicate(other, "=", I64(1))>>,
                                            <<other>>, <<>>),
                                      <<last.exprs>>, "sum"))
  /\ UNCHANGED <<cache, store, log, registry, nops>>

\* the declaration of a many-to-many field of a model
DeclareM2M ==
  /\ last.op = "input"
  /\ \E mi \in DeclModels, related \in DeclModels, our \in EndpointNames,
        their \in EndpointNames :
       last' = QCall("DeclareField", mi, <<>>, <<related, our, their>>, "", Nil,
                     Many2ManyDeclareField(mi, Many2ManyField(related, our, their, "")))
  /\ UNCHANGED <<cache, store, log, registry, nops>>

QueryNext ==
  \/ GenerateTableJoins
  \/ PredicateSQLClause
  \/ ConditionSQLClause
  \/ InsertQuery
  \/ UpdateQuery
  \/ TablesSQL
  \/ SelectQuery
  \/ SelectGroupQuery
  \/ DeclareM2M

QuerySpec == QueryInit /\ [][QueryNext]_vars

\* C13: a predicate on a foreign-key field with a 0 or nil argument renders
\* as "col IS NULL" for = and "col IS NOT NULL" for !=, with no parameter;
\* with any other operator it is a fatal error and no SQL is returned.
C13_NullPredicateRewrite ==
  ( /\ last.op = "predicateSQLClause"
    /\ Resolvable(last.model, last.exprs)
    /\ IsFKRelationType(PathField(last.model, last.exprs).fieldType)
    /\ last.arg \in {Nil, I64(0)} )
  => LET col == PathField(last.model, last.exprs).json
         out == last.out
     IN CASE last.operator = "=" ->
               /\ ~out.panic
               /\ Len(out.sql) = 4
               /\ SubSeq(out.sql, 2, 4) = <<".", col, "IS NULL">>
               /\ out.args = <<>>
          [] last.operator = "!=" ->
               /\ ~out.panic
               /\ Len(out.sql) = 4
               /\ SubSeq(out.sql, 2, 4) = <<".", col, "IS NOT NULL">>
               /\ out.args = <<>>
          [] OTHER -> out.panic /\ out.sql = <<>> /\ out.args = <<>>

\* a 0 compared with != to a foreign key reached through a relation
C13_Witness ==
  /\ last.op = "predicateSQLClause"
  /\ last.exprs = <<"items_ids", "owner_id">>
  /\ last.model = "Post"
  /\ last.arg = I64(0)
  /\ last.operator = "!="
  /\ last.out.sql = <<"\"T1\"", ".", "owner_id", "IS NOT NULL">> \/
     last.out.sql = <<"\"post__tag\"", ".", "owner_id", "IS NOT NULL">>

SegmentJoins(fi, trailing) ==
  CASE fi.fieldType = "Many2Many" -> 2
    [] fi.fieldType \in {"One2Many", "Rev2One"} -> 1
    [] IsFKRelationType(fi.fieldType) -> IF trailing THEN 0 ELSE 1
    [] OTHER -> 0

\* the joins from index k on are the joins of the segments from i on
RECURSIVE SegmentsOK(_, _, _, _, _)
SegmentsOK(mi, exprs, i, joins, k) ==
  IF i > Len(exprs) THEN k = Len(joins)
  ELSE
    LET fi == MustGet(mi, exprs[i])
        n == SegmentJoins(fi, i = Len(exprs))
    IN /\ k + n <= Len(joins)
       /\ fi.fieldType = "Many2Many" =>
            /\ joins[k + 1].tableName = quoteTableName(TableName(fi.m2mRelModel))
            /\ joins[k + 1].field = LinkColumn(mi)
            /\ joins[k + 1].otherField = "id"
            /\ joins[k + 1].otherTable = joins[k].alias
            /\ joins[k + 2].tableName = quoteTableName(TableName(fi.relatedModel))
            /\ joins[k + 2].field = "id"
            /\ joins[k + 2].otherField = LinkColumn(fi.relatedModel)
            /\ joins[k + 2].otherTable = joins[k + 1].alias
       /\ n = 1 =>
            /\ joins[k + 1].tableName = quoteTableName(TableName(fi.relatedModel))
            /\ joins[k + 1].otherTable = joins[k].alias
       /\ IF fi.relatedModel = "" THEN k + n = Len(joins)
          ELSE SegmentsOK(fi.relatedModel, exprs, i + 1, joins, k + n)

\* C16: on a resolvable path, a many-to-many segment appends two joins, the
\* link table on link.ourColumn = current.id and then the target table on
\* target.id = link.theirColumn; every other relation segment appends one
\* join; a trailing foreign-key or non-relation segment appends none.
C16_ManyToManyTwoJoins ==
  (last.op = "generateTableJoins" /\ Resolvable(last.model, last.exprs))
  => /\ ~last.out.panic
     /\ ~last.out.joins[1].joined
     /\ SegmentsOK(last.model, last.exprs, 1, last.out.joins, 1)

\* two many-to-many segments in a row and a trailing foreign key
C16_Witness ==
  /\ last.op = "generateTableJoins"
  /\ last.model = "Post"
  /\ last.exprs = <<"tags", "posts", "main_id">>
  /\ Len(last.out.joins) = 6

\* the words of a FROM clause that declare an alias: the one after the root
\* table, and the one after the table of every JOIN
Declared(tables) ==
  [i \in {j \in DOMAIN tables :
            \/ j = 2
            \/ j > 2 /\ tables[j - 2] \in {"LEFT JOIN", "INNER JOIN"}} |-> tables[i]]

\* the aliases a clause refers to: the words before a "."
References(sql) ==
  {sql[i] : i \in {j \in DOMAIN sql : j < Len(sql) /\ sql[j + 1] = "."}}

Injective(f) == \A a, b \in DOMAIN f : f[a] = f[b] => a = b

\* C15: tablesSQL declares every join of the paths exactly once, under one
\* alias, different joins under different aliases, the root table under its
\* own name; in a statement every part refers to declared aliases only, and the
\* parts that resolve the same path refer to the same aliases.
C15_JoinAliases ==
  /\ (last.op = "tablesSQL" /\ ~last.out.panic)
     => LET root == quoteTableName(TableName(last.model))
            all == UNION {Range(generateTableJoins(last.model, p).joins) :
                            p \in {last.exprs, last.other}}
            decl == Declared(last.out.res)
        IN /\ DOMAIN last.out.joinsMap = {j.alias : j \in all}
           /\ Injective(last.out.joinsMap)
           /\ last.out.joinsMap[root] = root
           /\ Injective(decl)
           /\ Range(decl) = {j.alias : j \in all}
  /\ (last.op \in {"selectQuery", "selectGroupQuery"} /\ ~last.out.panic)
     => LET decl == Declared(last.out.tables)
        IN /\ Injective(decl)
           /\ decl[2] = quoteTableName(TableName(last.model))
           /\ References(Statement(last.out)) \subseteq Range(decl)
           /\ References(last.out.where) =
                References(last.out.group \o last.out.order)

\* a statement where the selected path and the path of the condition share
\* the two joins of a many-to-many field
C15_Witness ==
  /\ last.op = "selectQuery"
  /\ last.model = "Post"
  /\ last.exprs = <<"tags", "posts">>
  /\ last.other = <<"tags">>
  /\ ~last.out.panic
  /\ Cardinality(DOMAIN Declared(last.out.tables)) = 5
  /\ References(last.out.where) = {"\"T2\""}

\* C17: a many-to-many relation declared with the default names from either
\* model has the same link model, and the two declarations put the id of each
\* endpoint at the same place of a link pair.
C17_LinkIdentity ==
  ( /\ last.op = "DeclareField"
    /\ last.other[2] = "" /\ last.other[3] = ""
    /\ last.model # last.other[1] )
  => LET a == last.out.rel
         b == Many2ManyDeclareField(last.other[1],
                                    Many2ManyField(last.model, "", "", "")).rel
     IN /\ ~last.out.panic
        /\ a.m2mRelModel = b.m2mRelModel
        /\ OurIndex(a) # TheirIndex(a)
        /\ OurIndex(a) = TheirIndex(b)
        /\ TheirIndex(a) = OurIndex(b)
        /\ \A x, y \in Ids :
             /\ NewLink(a, x, y) = NewLink(b, y, x)
             /\ getM2MLinks(addM2MLink(newCache, a, x, <<y>>), b, y) = {x}

\* the relation of Tag and Post declared from Tag, the greater name
C17_Witness ==
  /\ last.op = "DeclareField"
  /\ last.model = "Tag"
  /\ last.other = <<"Post", "", "">>
  /\ last.out.rel.m2mRelModel = "PostTagRel"
  /\ OurIndex(last.out.rel) = 2

(***************************************************************************)
(* Paths of several segments in the cache                                  *)
(***************************************************************************)
\* the records a path designates: the cached foreign key of every hop is
\* followed, a reverse-one-to-one hop goes to a record that refers back, and
\* no record is designated when a hop has no cached foreign key
RECURSIVE Designated(_, _, _, _)
Designated(c, mi, id, path) ==
  IF Len(path) = 1 THEN {Ref(mi, id)}
  ELSE
    LET fi == MustGet(mi, path[1])
        ref == Ref(mi, id)
        fk == IF ref \in DOMAIN c.data THEN Lookup(c.data[ref], fi.json) ELSE Nil
    IN CASE IsFKRelationType(fi.fieldType) ->
              IF fk.t = "int64"
                THEN Designated(c, fi.relatedModel, fk.n, Tail(path)) ELSE {}
         [] fi.fieldType = "Rev2One" ->
              UNION {Designated(c, fi.relatedModel, r.id, Tail(path)) :
                       r \in {x \in DOMAIN c.data :
                                /\ x.model = fi.relatedModel
                                /\ Lookup(c.data[x], fi.jsonReverseFK) = I64(id)}}
         [] OTHER -> {}

\* c2 is c with the value written to the field of the record t and to
\* nothing else
OnlyWritten(c, c2, t, jsonName, value) ==
  /\ c2.m2mLinks = c.m2mLinks
  /\ DOMAIN c2.data = DOMAIN c.data \cup {t}
  /\ \A r \in DOMAIN c.data \ {t} : c2.data[r] = c.data[r]
  /\ Lookup(c2.data[t], jsonName) = value
  /\ \A k \in DOMAIN c2.data[t] \ {jsonName, "id"} :
       t \in DOMAIN c.data /\ Lookup(c.data[t], k) = c2.data[t][k]

\* C18: on a path of several segments, when a hop has no cached foreign key
\* get returns nil, checkIfInCache returns false and updateEntry returns an
\* error and leaves the cache unchanged; otherwise updateEntry writes the
\* field of a record the path designates and nothing else, and get read
\* the field of such a record.
C18_MultiSegmentPaths ==
  [][ (last'.op = "updateEntry" /\ Len(last'.path) > 1)
      => LET T == Designated(cache, last'.model, last'.id, last'.path)
             jsonName == PathField(last'.model, last'.path).json
         IN /\ T = {}
               => /\ last'.err
                  /\ cache' = cache
                  /\ last'.old = {Nil}
                  /\ checkIfInCache(cache, last'.model, last'.id, last'.path) = {FALSE}
            /\ T # {}
               => /\ ~last'.err
                  /\ \E t \in T : OnlyWritten(cache, cache', t, jsonName, last'.value)
                  /\ last'.old \subseteq
                       {IF t \in DOMAIN cache.data THEN Lookup(cache.data[t], jsonName)
                        ELSE Nil : t \in T} ]_vars

\* updateEntry failed on a path whose first record is in the cache without
\* the foreign key of the hop
C18_Witness ==
  /\ last.op = "updateEntry"
  /\ last.path = <<"Post", "Title">>
  /\ last.err
  /\ Ref(last.model, last.id) \in DOMAIN cache.data
  /\ \E r \in DOMAIN cache.data : r.model = "Post" /\ "title" \in DOMAIN cache.data[r]

(***************************************************************************)
(* Permission denial and inverse methods                                   *)
(***************************************************************************)
\* C19: when Read is denied on a computed field, computeFieldValues does not
\* call the compute method of the field, puts nothing for the field in the
\* result map, leaves the cache of the field as it is, does not fail, and
\* handles the other requested fields.
C19_PermissionDenialSilent ==
  [][ last'.op = "computeFieldValues"
      => \A f \in last'.denied :
           LET fi == MustGet(last'.model, f)
           IN /\ ~last'.panic
              /\ fi.json \notin DOMAIN last'.params
              /\ \A i \in DOMAIN log' :
                   ~(log'[i].ev = "compute" /\ log'[i].method = fi.compute)
              /\ \A id \in last'.ids :
                   get(cache', last'.model, id, <<f>>) = get(cache, last'.model, id, <<f>>)
              /\ \A g \in Range(last'.fields) \ last'.denied :
                   \/ MustGet(last'.model, g).json \in DOMAIN last'.params
                   \/ \E i \in DOMAIN log' :
                        log'[i].method = MustGet(last'.model, g).compute ]_vars

\* the computed fields of the field map of the last write
ComputedWritten(c) ==
  {f \in DOMAIN c.fMap : isComputedField(MustGet(c.model, f))}

InverseCalls(lg, method) ==
  {i \in DOMAIN lg : lg[i].ev = "inverse" /\ lg[i].method = method}

\* C20: a write by a caller of a value for a computed field calls the inverse
\* method of the field exactly once when it has one; without an inverse
\* method the write is a fatal error, unless the context allows it or the
\* value is the zero value, and then no method is called and nothing fails.
\* The writes of the trigger propagation call no inverse method.
C20_InverseRule ==
  [][ last'.op = "Write"
      => /\ \A f \in ComputedWritten(last') :
              LET fi == MustGet(last'.model, f)
              IN IF fi.inverse # ""
                   THEN /\ ~last'.panic
                        /\ Cardinality(InverseCalls(log', fi.inverse)) = 1
                 ELSE IF \/ "doxa_allow_without_inverse" \in last'.ctx
                         \/ typesutilsIsZero(last'.fMap[f])
                   THEN /\ ~last'.panic
                        /\ \A i \in DOMAIN log' : log'[i].ev # "inverse"
                 ELSE /\ last'.panic
                      /\ \A i \in DOMAIN log' : log'[i].ev # "inverse"
         /\ ComputedWritten(last') = {}
              => /\ ~last'.panic
                 /\ \A i \in DOMAIN log' : log'[i].ev # "inverse" ]_vars

\* a write of a value that is not zero to a computed field without inverse
\* method failed
C20_Witness ==
  /\ last.op = "Write"
  /\ last.panic
  /\ "NbLines" \in DOMAIN last.fMap
  /\ last.ctx = {}

\* a write of Total by a caller called InverseTotal
C20_WitnessInverse ==
  /\ last.op = "Write"
  /\ ~last.panic
  /\ "Total" \in DOMAIN last.fMap
  /\ InverseCalls(log, "InverseTotal") # {}

\* C21: every Write issued by updateStoredFields carries the marker
\* doxa_force_compute_write, and no inverse method is called from such a
\* write on: in the whole propagation of a write of a caller, every write
\* after the first is marked and no inverse call follows a marked write.
C21_NoInverseReentry ==
  [][ last'.op = "Write"
      => /\ \A i \in DOMAIN log' :
              (log'[i].ev = "write" /\ i > 1) => log'[i].force
         /\ \A i, j \in DOMAIN log' :
              (log'[i].ev = "write" /\ log'[i].force /\ j > i)
              => log'[j].ev # "inverse" ]_vars

\* the recomputation of Total, which declares InverseTotal, was written and
\* no inverse method was called
C21_Witness ==
  /\ last.op = "Write"
  /\ \E i \in DOMAIN log :
       /\ log[i].ev = "write"
       /\ log[i].force
       /\ "Total" \in DOMAIN log[i].ret
       /\ MustGet(log[i].model, "Total").inverse # ""
  /\ \A i \in DOMAIN log : log[i].ev # "inverse"

\* C29: when a dependency of a computed field that is not stored was written,
\* processTriggers removes the cache entry of that field on each affected
\* record and nothing else: the cache after the call is the cache before it
\* without that entry, the compute method of the field is not called during
\* the propagation and no write of the field is issued
Invalidated(data, mi, id, fieldName) ==
  IF Ref(mi, id) \in DOMAIN data
    THEN [data EXCEPT ![Ref(mi, id)] = Del(@, MustGet(mi, fieldName).json)]
    ELSE data

C29_InvalidateNonStored ==
  last.op = "Write"
    => \A i \in DOMAIN log :
         log[i].ev = "removeEntry"
           => /\ \A id \in log[i].ids :
                   log[i].ret = Invalidated(log[i].cur, log[i].model, id,
                                            log[i].method)
              /\ \A j \in DOMAIN log :
                   /\ ~(/\ log[j].ev = "compute"
                        /\ log[j].method = MustGet(log[i].model, log[i].method).compute)
                   /\ ~(/\ log[j].ev = "write" /\ j > 1
                        /\ log[i].method \in DOMAIN log[j].ret)

\* C24: Model.AddFields called with a field name that the model already has
\* fails with a fatal error and leaves the registry as it was before the
\* call
C24_AddFieldsUniqueNames ==
  [][ (/\ last'.op = "AddFields"
       /\ \E i \in DOMAIN last'.names :
            <<last'.model, last'.names[i]>> \in DOMAIN registry.fields)
      => /\ last'.panic
         /\ registry' = registry ]_vars

\* the ids a value written on a one-to-many or reverse-one-to-one field
\* refers to
Referenced(fi, value) ==
  IF fi.fieldType = "One2Many" THEN Range(value.q) ELSE {value.n}

\* C27: updateEntry on a one-to-many or reverse-one-to-one field of record r
\* sets the reverse foreign key of each referenced record of the related
\* model to the id of r and stores the sentinel true under the field itself;
\* get on the field then answers with the cached records of the related
\* model whose reverse foreign key is the id of r.
C27_ReverseFKWrite ==
  (/\ last.op = "updateEntry"
   /\ IsSingleField(last)
   /\ CallField(last).fieldType \in {"One2Many", "Rev2One"})
  => /\ ~last.err
     /\ \A x \in Referenced(CallField(last), last.value) :
          /\ Ref(CallField(last).relatedModel, x) \in DOMAIN cache.data
          /\ Lookup(cache.data[Ref(CallField(last).relatedModel, x)],
                    CallField(last).jsonReverseFK) = I64(last.id)
     /\ Lookup(cache.data[Ref(last.model, last.id)], CallField(last).json) = True
     /\ get(cache, last.model, last.id, last.path)
          = IF CallField(last).fieldType = "One2Many"
              THEN {IdsV(SortedSeq(BackRefs(cache, CallField(last), last.id)))}
              ELSE {I64(x) : x \in BackRefs(cache, CallField(last), last.id)}

\* two items were written on a post that had none while the other post has
\* its main tag
C27_Witness ==
  /\ last.op = "updateEntry"
  /\ last.model = "Post"
  /\ last.path = <<"Items">>
  /\ last.old = {IdsV(<<>>)}
  /\ last.value = IdsV(<<1, 2>>)
  /\ get(cache, last.model, last.id, last.path) = {IdsV(<<1, 2>>)}
  /\ \E r \in Ids \ {last.id} : get(cache, "Post", r, <<"Main">>) # {Nil}

\* C28: a write on a one-to-many field replaces the value: get then returns
\* exactly the ids of the last write, whatever was written before
C28_O2MWriteReplaces ==
  (/\ last.op = "updateEntry"
   /\ IsSingleField(last)
   /\ CallField(last).fieldType = "One2Many")
  => get(cache, last.model, last.id, last.path)
       = {IdsV(SortedSeq(Range(last.value.q)))}

\* C30: the stored computed fields that depend on the written fields through
\* the same path and have the same compute method are recomputed together:
\* a write calls the method at most once on a record, exactly once on the
\* records of a write of Discount or Tax, and issues at most one Write of a
\* recomputation on a record, which holds the fields of the group
C30_TriggerGrouping ==
  (last.op = "Write" /\ ~last.panic)
  => \A id \in Ids :
       /\ Cardinality(Events("compute", "Invoice", id)) <= 1
       /\ (/\ last.model = "Invoice"
           /\ id \in last.ids
           /\ DOMAIN last.fMap \cap {"Discount", "Tax"} # {})
          => Cardinality(Events("compute", "Invoice", id)) = 1
       /\ Cardinality({i \in Events("write", "Invoice", id) : log[i].force}) <= 1
       /\ \A i \in Events("write", "Invoice", id) :
            log[i].force => {"Total", "NbLines"} \subseteq DOMAIN log[i].ret

\* Discount and Tax of an invoice were written together; ComputeTotal was
\* called once on it, and one Write stored Total and NbLines
C30_Witness ==
  /\ last.op = "Write"
  /\ last.model = "Invoice"
  /\ DOMAIN last.fMap = {"Discount", "Tax"}
  /\ Cardinality({i \in DOMAIN log : log[i].ev = "compute"}) = 1
  /\ \E i \in DOMAIN log :
       /\ log[i].ev = "write"
       /\ log[i].force
       /\ log[i].ids = last.ids
       /\ {"Total", "NbLines"} \subseteq DOMAIN log[i].ret

\* the logical words of a statement: AND, OR, NOT, the parentheses, and for
\* each placeholder the argument bound to it, which names the comparison
RECURSIVE Skeleton(_, _)
Skeleton(sql, args) ==
  IF sql = <<>> THEN <<>>
  ELSE IF Head(sql) = "?"
    THEN <<ToString(Head(args).n)>> \o Skeleton(Tail(sql), Tail(args))
  ELSE IF Head(sql) \in {"AND", "OR", "NOT", "(", ")"}
    THEN <<Head(sql)>> \o Skeleton(Tail(sql), args)
  ELSE Skeleton(Tail(sql), args)

\* the truth value of a sequence of logical words under an assignment of
\* truth values to the comparisons, read as SQL reads it: NOT binds tighter
\* than AND, AND tighter than OR
RECURSIVE ParseOr(_, _)
RECURSIVE ParseAnd(_, _)
RECURSIVE ParseNot(_, _)
RECURSIVE OrTail(_, _, _)
RECURSIVE AndTail(_, _, _)
ParseNot(toks, asg) ==
  IF Head(toks) = "NOT"
    THEN LET neg(r) == [val |-> ~r.val, rest |-> r.rest]
         IN neg(ParseNot(Tail(toks), asg))
  ELSE IF Head(toks) = "("
    THEN LET close(r) == [val |-> r.val, rest |-> Tail(r.rest)]
         IN close(ParseOr(Tail(toks), asg))
  ELSE [val |-> asg[Head(toks)], rest |-> Tail(toks)]
AndTail(left, toks, asg) ==
  IF toks # <<>> /\ Head(toks) = "AND"
    THEN LET more(r) == AndTail(left /\ r.val, r.rest, asg)
         IN more(ParseNot(Tail(toks), asg))
    ELSE [val |-> left, rest |-> toks]
ParseAnd(toks, asg) ==
  LET tail(r) == AndTail(r.val, r.rest, asg) IN tail(ParseNot(toks, asg))
OrTail(left, toks, asg) ==
  IF toks # <<>> /\ Head(toks) = "OR"
    THEN LET more(r) == OrTail(left \/ r.val, r.rest, asg)
         IN more(ParseAnd(Tail(toks), asg))
    ELSE [val |-> left, rest |-> toks]
ParseOr(toks, asg) ==
  LET tail(r) == OrTail(r.val, r.rest, asg) IN tail(ParseAnd(toks, asg))
Truth(toks, asg) == ParseOr(toks, asg).val

\* the logical words of a condition tree, every nested condition in
\* parentheses
RECURSIVE TreeWords(_, _)
TreeWords(predicates, first) ==
  IF predicates = <<>> THEN <<>>
  ELSE LET unit(p) ==
             (IF first THEN <<>> ELSE IF p.isOr THEN <<"OR">> ELSE <<"AND">>)
               \o (IF p.isNot THEN <<"NOT">> ELSE <<>>)
               \o (IF p.isCond THEN <<"(">> \o TreeWords(p.cond, TRUE) \o <<")">>
                   ELSE <<ToString(p.arg.n)>>)
       IN unit(Head(predicates)) \o TreeWords(Tail(predicates), FALSE)

Comparisons(toks) == Range(toks) \ {"AND", "OR", "NOT", "(", ")"}

\* C26: the statement conditionSQLClause renders, read with the precedence
\* of SQL, has the truth value of the condition tree in which each nested
\* condition is one unit, for every assignment of truth values to the
\* comparisons and every place of the nested condition
C26_WhereParenthesized ==
  last.op = "conditionSQLClause"
  => /\ ~last.out.panic
     /\ \A asg \in [Comparisons(TreeWords(last.other, TRUE)) -> BOOLEAN] :
          Truth(Skeleton(last.out.sql, last.out.args), asg)
            = Truth(TreeWords(last.other, TRUE), asg)

\* the number of placeholders of a statement
Placeholders(sql) == Cardinality({i \in DOMAIN sql : sql[i] = "?"})

\* the names of the columns of a statement before its WHERE clause, in the
\* order of the statement
ColumnsOf(mi, sql) ==
  LET isColumn(w) == w \in {f.json : f \in FieldsOf(mi)}
      upTo(n) == SelectSeq(SubSeq(sql, 1, n), isColumn)
  IN IF \E i \in DOMAIN sql : sql[i] = "WHERE"
       THEN upTo((CHOOSE i \in DOMAIN sql : sql[i] = "WHERE") - 1)
       ELSE upTo(Len(sql))

\* C25: insertQuery and updateQuery fail with a fatal error and return no
\* statement on an empty field map; the statement they return has as many
\* placeholders as parameters, the parameters in the order of the columns
C25_PlaceholdersMatchParams ==
  last.op \in {"insertQuery", "updateQuery"}
  => /\ DOMAIN last.arg = {}
          => (last.out.panic /\ last.out.sql = <<>> /\ last.out.args = <<>>)
     /\ ~last.out.panic
          => /\ DOMAIN last.arg # {}
             /\ Placeholders(last.out.sql) = Len(last.out.args)
             /\ \A j \in DOMAIN ColumnsOf(last.model, last.out.sql) :
                  /\ j <= Len(last.out.args)
                  /\ \E k \in DOMAIN last.arg :
                       /\ MustGet(last.model, k).json
                            = ColumnsOf(last.model, last.out.sql)[j]
                       /\ last.out.args[j] = last.arg[k]
             /\ last.op = "updateQuery"
                  => /\ Len(ColumnsOf(last.model, last.out.sql)) = Len(last.other)
                     /\ \A p \in Range(last.operator) :
                          p.arg # Nil => last.out.args[Len(last.out.args)] = p.arg

\* a tag was inserted with its post and a null owner, the owner ranged over
\* first: the statement has the one column post_id
C25_Witness ==
  /\ last.op = "insertQuery"
  /\ last.model = "Tag"
  /\ last.other = <<"Owner", "Post">>
  /\ last.arg["Owner"] = NullPtr
  /\ ~last.out.panic
  /\ last.out.args = <<I64(3)>>
  /\ Placeholders(last.out.sql) = 1

\* two columns of a tag were updated under a condition with a parameter
C25_WitnessUpdate ==
  /\ last.op = "updateQuery"
  /\ last.other = <<"Owner", "ID">>
  /\ ~last.out.panic
  /\ last.out.args = <<I64(4), I64(1), I64(5)>>
  /\ Placeholders(last.out.sql) = 3

(***************************************************************************)
(* Two environments, each with the cache newCache gave it, under a bounded *)
(* interleaving of calls on their caches                                   *)
(***************************************************************************)
MaxEnvOps == 3

Envs == {1, 2}

newCachePointer_shared(heap) ==
  [ptr |-> 1, heap |-> IF heap = <<>> THEN <<newCache>> ELSE heap]

\* newCache: a pointer to a new cache instance, with maps of its own
newCachePointer(heap) == [ptr |-> Len(heap) + 1, heap |-> Append(heap, newCache)]

\* the environment takes the cache newCache returns
newEnvironment(world, e) ==
  LET bound(a) == [heap |-> a.heap, envs |-> Put(world.envs, e, a.ptr)]
  IN bound(newCachePointer(world.heap))

EnvCall(op, mi, id, path, value) ==
  [op |-> op, model |-> mi, id |-> id, path |-> path, value |-> value]

\* the calls made on the cache of an environment
EnvCalls ==
  { EnvCall("updateEntry", "Post", 1, <<"Title">>, Str(1)),
    EnvCall("updateEntry", "Post", 1, <<"Tags">>, IdsV(<<1>>)),
    EnvCall("updateEntry", "Post", 1, <<"Items">>, IdsV(<<1>>)),
    EnvCall("addRecord", "Tag", 1, <<<<"Post">>, <<"Owner">>>>,
            Row({<<<<"Post">>, I64(1)>>, <<<<"Owner">>, I64(1)>>})),
    EnvCall("removeEntry", "Post", 1, <<"title">>, Nil),
    EnvCall("invalidateRecord", "Post", 1, <<>>, Nil),
    EnvCall("addM2MLink", "Post", 1, <<"Tags">>, IdsV(<<2>>)) }

\* the outcomes of a call on a cache
applyCall(c, call) ==
  CASE call.op = "updateEntry" ->
         {r.c : r \in updateEntry(c, call.model, call.id, call.path, call.value)}
    [] call.op = "addRecord" ->
         addRecord(c, call.model, call.id, call.value, call.path)
    [] call.op = "removeEntry" ->
         removeEntry(c, call.model, call.id, call.path[1])
    [] call.op = "invalidateRecord" ->
         {invalidateRecord(c, call.model, call.id)}
    [] OTHER ->
         {addM2MLink(c, MustGet(call.model, call.path[1]), call.id, call.value.q)}

ECacheCall(op, e, call) == [op |-> op, env |-> e, call |-> call]

EnvInit ==
  /\ cache = [heap |-> <<>>, envs |-> EmptyMap]
  /\ last = ECacheCall("start", 0, EnvCall("", "", 0, <<>>, Nil))
  /\ nops = 0
  /\ store = EmptyMap
  /\ log = <<>>
  /\ registry = EmptyMap

\* an environment is opened
NewEnvironment ==
  /\ \E e \in Envs \ DOMAIN cache.envs :
       /\ cache' = newEnvironment(cache, e)
       /\ last' = ECacheCall("newEnvironment", e, EnvCall("", "", 0, <<>>, Nil))
  /\ UNCHANGED <<store, log, registry, nops>>

\* an environment makes a call on its cache
EnvCacheCall ==
  /\ nops < MaxEnvOps
  /\ \E e \in DOMAIN cache.envs, call \in EnvCalls :
       \E c \in applyCall(cache.heap[cache.envs[e]], call) :
         /\ cache' = [cache EXCEPT !.heap[cache.envs[e]] = c]
         /\ last' = ECacheCall(call.op, e, call)
  /\ nops' = nops + 1
  /\ UNCHANGED <<store, log, registry>>

EnvNext == NewEnvironment \/ EnvCacheCall

EnvSpec == EnvInit /\ [][EnvNext]_vars

\* the cache of an environment
CacheOf(world, e) == world.heap[world.envs[e]]

\* what get, checkIfInCache and getM2MLinks answer on a cache, for every
\* field of every record
Observed(c) ==
  [k \in {<<f, id>> : f \in {g \in FieldTable : g.model \in Models}, id \in Ids} |->
     <<get(c, k[1].model, k[2], <<k[1].name>>),
       checkIfInCache(c, k[1].model, k[2], <<k[1].name>>),
       IF k[1].fieldType = "Many2Many" THEN getM2MLinks(c, k[1], k[2]) ELSE {}>>]

\* C23: an environment is given an empty cache of its own, and a call on the
\* cache of an environment changes nothing of what get, checkIfInCache and
\* getM2MLinks answer on the cache of another environment
C23_CachesIsolated ==
  [][ /\ \A e \in DOMAIN cache.envs :
           last'.env # e
             => /\ e \in DOMAIN cache'.envs
                /\ Observed(CacheOf(cache', e)) = Observed(CacheOf(cache, e))
      /\ last'.op = "newEnvironment"
           => /\ CacheOf(cache', last'.env) = newCache
              /\ \A e \in DOMAIN cache.envs : cache'.envs[e] # cache'.envs[last'.env]
    ]_vars

\* the second environment was opened after the first one had cached a
\* title, and has then cached a link that the first one does not see
C23_Witness ==
  /\ DOMAIN cache.envs = Envs
  /\ last.op = "addM2MLink"
  /\ last.env = 2
  /\ get(CacheOf(cache, 1), "Post", 1, <<"Title">>) = {Str(1)}
  /\ get(CacheOf(cache, 2), "Post", 1, <<"Title">>) = {Nil}
  /\ getM2MLinks(CacheOf(cache, 2), MustGet("Post", "Tags"), 1) = {2}
  /\ getM2MLinks(CacheOf(cache, 1), MustGet("Post", "Tags"), 1) = {}

(***************************************************************************)
(* The propagation of a write on cells, one loop iteration at a step. A    *)
(* and B are stored computed fields that depend on each other, C and D     *)
(* depend on Y in a chain. The stack holds the loops of processTriggers    *)
(* and updateStoredFields that have iterations left.                       *)
(***************************************************************************)
MaxChains == 2

CellRow(id) ==
  Row({<<"id", I64(id)>>, <<"x", I64(0)>>, <<"y", I64(0)>>, <<"a", I64(0)>>,
       <<"b", I64(0)>>, <<"c", I64(0)>>, <<"d", I64(0)>>})

\* the compute methods of Cell, functions of the state of the record:
\* ComputeA returns X or B, or else X xor B; the others copy a field
ComputeCell(method, how, st, id) ==
  LET a(x, b) ==
        Row({<<"A", I64(IF how = "or" THEN (IF x + b > 0 THEN 1 ELSE 0)
                        ELSE (x + b) % 2)>>})
  IN CASE method = "ComputeA" ->
            a(Get(st, "Cell", id, "X").n, Get(st, "Cell", id, "B").n)
       [] method = "ComputeB" -> Row({<<"B", Get(st, "Cell", id, "A")>>})
       [] method = "ComputeC" -> Row({<<"C", Get(st, "Cell", id, "Y")>>})
       [] OTHER -> Row({<<"D", Get(st, "Cell", id, "C")>>})

\* a loop of processTriggers over the keys of toUpdate, or a loop of
\* updateStoredFields over the records of rc
Frame(loop, rc, keys, method) ==
  [loop |-> loop, rc |-> rc, keys |-> keys, method |-> method]
Exhausted(frame) ==
  IF frame.loop = "processTriggers" THEN frame.keys = {} ELSE frame.rc.ids = {}
Push(stack, frame) == IF Exhausted(frame) THEN stack ELSE <<frame>> \o stack

\* Write up to its call of processTriggers: the values are stored and the
\* loop of processTriggers over toUpdate is entered
writeStep(st, stack, rc, vals) ==
  LET entered(s) ==
        IF s.panic THEN [st |-> s, stack |-> stack]
        ELSE [st |-> storeRecords(s, rc, vals, rc.ids),
              stack |-> IF "doxa_no_recompute_stored_fields" \in rc.ctx
                          THEN stack
                          ELSE Push(stack,
                                    Frame("processTriggers", rc,
                                          DOMAIN toUpdate(rc.model, vals), ""))]
  IN entered(processInverseMethods(st, rc, vals, DOMAIN vals))

\* one iteration of the loop of processTriggers, on the key cData
triggersIteration(st, stack, cData) ==
  LET rest == Push(Tail(stack),
                   [Head(stack) EXCEPT !.keys = @ \ {cData}])
      on(recs) ==
        IF ~cData.stored
          THEN [st |-> removeEntries(st, recs.model, recs.ids, cData.fieldName),
                stack |-> rest]
          ELSE [st |-> st,
                stack |-> Push(rest, Frame("updateStoredFields", recs, {},
                                           cData.compute))]
  IN on(IF cData.path # <<>>
          THEN RC(cData.model,
                  Search(st, cData.model, cData.path, Head(stack).rc.ids),
                  Head(stack).rc.ctx)
          ELSE Head(stack).rc)

\* one iteration of the loop of updateStoredFields, on the record id
updateIteration(st, stack, id, how) ==
  LET rest == Push(Tail(stack), [Head(stack) EXCEPT !.rc.ids = @ \ {id}])
      compared(vals) ==
        IF doUpdate(vals, [f \in DOMAIN vals |->
                             Get(st, Head(stack).rc.model, id, f)])
          THEN writeStep(st, rest,
                         RC(Head(stack).rc.model, {id},
                            WithForceComputeWrite(Head(stack).rc.ctx)),
                         vals)
          ELSE [st |-> st, stack |-> rest]
  IN compared(ComputeCell(Head(stack).method, how, st, id))

TCall(op, ids, fMap) == [op |-> op, ids |-> ids, fMap |-> fMap]

TriggerInit ==
  /\ cache = newCache
  /\ store = [r \in {Ref("Cell", i) : i \in Ids} |-> CellRow(r.id)]
  /\ log = <<>>
  /\ registry \in {[ComputeA |-> how] : how \in {"or", "xor"}}
  /\ last = TCall("open", {}, EmptyMap)
  /\ nops = 0

\* a caller writes X or Y on some cells while no propagation is running
StartWrite ==
  /\ log = <<>>
  /\ nops < MaxChains
  /\ \E ids \in (SUBSET Ids) \ {{}}, f \in {"X", "Y"}, v \in {0, 1} :
       \E w \in {writeStep(St(cache, store, <<>>, FALSE, EmptyMap), <<>>,
                           RC("Cell", ids, {}), Row({<<f, I64(v)>>}))} :
         /\ cache' = w.st.cache
         /\ store' = w.st.store
         /\ log' = w.stack
         /\ last' = TCall("Write", ids, Row({<<f, I64(v)>>}))
  /\ nops' = nops + 1
  /\ UNCHANGED registry

\* the loop of processTriggers on top of the stack makes one iteration; the
\* keys of toUpdate are ranged over in any order
TriggersIteration ==
  /\ log # <<>>
  /\ Head(log).loop = "processTriggers"
  /\ \E cData \in Head(log).keys :
       \E w \in {triggersIteration(St(cache, store, <<>>, FALSE, EmptyMap), log,
                                   cData)} :
         /\ cache' = w.st.cache
         /\ store' = w.st.store
         /\ log' = w.stack
         /\ last' = TCall("processTriggers", Head(log).rc.ids, EmptyMap)
  /\ UNCHANGED <<registry, nops>>

\* the loop of updateStoredFields on top of the stack makes one iteration
UpdateIteration ==
  /\ log # <<>>
  /\ Head(log).loop = "updateStoredFields"
  /\ \E id \in {x \in Head(log).rc.ids : \A y \in Head(log).rc.ids : x <= y} :
       \E w \in {updateIteration(St(cache, store, <<>>, FALSE, EmptyMap), log, id,
                                 registry.ComputeA)} :
         /\ cache' = w.st.cache
         /\ store' = w.st.store
         /\ log' = w.stack
         /\ last' = TCall("updateStoredFields", {id}, EmptyMap)
  /\ UNCHANGED <<registry, nops>>

TriggerNext == StartWrite \/ TriggersIteration \/ UpdateIteration

TriggerSpec == TriggerInit /\ [][TriggerNext]_vars

\* the call that runs the propagation keeps running
FairTriggerSpec ==
  TriggerSpec /\ WF_vars(TriggersIteration \/ UpdateIteration)

\* C22 as stated: every chain of writes, triggers and recomputations that a
\* write starts comes to an end, cycles of stored computed fields included
C22_Original == (log # <<>>) ~> (log = <<>>)

\* C22 amended: the chain a write starts comes to an end when the stored
\* computed fields it reaches do not depend on one another in a cycle, and
\* when the compute methods of a cycle reach values that they return again
C22_Termination ==
  (/\ log # <<>>
   /\ \/ registry.ComputeA = "or"
      \/ last.op = "Write" /\ DOMAIN last.fMap = {"Y"})
    ~> (log = <<>>)

\* the write of X went round the cycle, A then B were written, and the
\* chain ended
C22_Witness ==
  /\ log = <<>>
  /\ last.op = "updateStoredFields"
  /\ registry.ComputeA = "or"
  /\ \E i \in Ids : /\ Get(St(cache, store, <<>>, FALSE, EmptyMap), "Cell", i, "A") = I64(1)
                    /\ Get(St(cache, store, <<>>, FALSE, EmptyMap), "Cell", i, "B") = I64(1)

(***************************************************************************)
(* Reads of a computed field that is in the cache                          *)
(***************************************************************************)
\* C31: two successive reads of the same computed field that is not stored,
\* on the same record, with nothing in between: the second read calls no
\* compute method and returns for the field the value the first returned.
C31_CachedNotRecomputed ==
  [][ (/\ last.op = "computeFieldValues"
       /\ last'.op = "computeFieldValues"
       /\ last'.ids = last.ids
       /\ last.fields = <<"Label">>
       /\ last'.fields = <<"Label">>
       /\ last.denied = {}
       /\ last'.denied = {})
      => /\ \A i \in DOMAIN log' : log'[i].ev # "compute"
         /\ Lookup(last'.params, "label") = Lookup(last.params, "label") ]_vars

(***************************************************************************)
(* The joins of one-to-many and reverse-one-to-one segments                *)
(***************************************************************************)
\* the one-to-many and reverse-one-to-one segments of a path from segment i
\* on, each with the place of its join in the chain, n joins coming before
RECURSIVE RevSegments(_, _, _, _)
RevSegments(mi, exprs, i, n) ==
  IF i > Len(exprs) THEN {}
  ELSE IF ~HasField(mi, exprs[i]) THEN {}
  ELSE LET seg(fi) ==
             IF fi.relatedModel = ""
                  \/ (i = Len(exprs) /\ IsFKRelationType(fi.fieldType))
               THEN {}
               ELSE (IF fi.fieldType \in {"One2Many", "Rev2One"}
                       THEN {<<fi, n + 1>>} ELSE {})
                    \cup RevSegments(fi.relatedModel, exprs, i + 1,
                                     IF fi.fieldType = "Many2Many"
                                       THEN n + 2 ELSE n + 1)
       IN seg(MustGet(mi, exprs[i]))

\* the join at place k of the chain links the table of the related model of
\* fi by its reverse foreign key to the id of the join before it, and is
\* INNER exactly when inner is true
ReverseJoin(joins, k, fi, inner) ==
  /\ joins[k].joined
  /\ joins[k].tableName = quoteTableName(TableName(fi.relatedModel))
  /\ joins[k].field = MustGet(fi.relatedModel, fi.jsonReverseFK).json
  /\ joins[k].otherTable = joins[k - 1].alias
  /\ joins[k].otherField = "id"
  /\ joins[k].innerJoin = inner
  /\ sqlString(joins[k])[1] = (IF inner THEN "INNER JOIN" ELSE "LEFT JOIN")

\* C32 as stated: the join of a one-to-many or reverse-one-to-one segment
\* is on related.reverseFK = current.id, and is INNER exactly when the
\* reverse foreign key field of the related model is required.
C32_Original ==
  (last.op = "generateTableJoins" /\ ~last.out.panic)
  => \A s \in RevSegments(last.model, last.exprs, 1, 1) :
       ReverseJoin(last.out.joins, s[2], s[1],
                   MustGet(s[1].relatedModel, s[1].jsonReverseFK).required)

\* C32 amended: the join of a one-to-many or reverse-one-to-one segment is
\* on related.reverseFK = current.id, and is INNER exactly when the
\* one-to-many or reverse-one-to-one field itself is required.
C32_ReverseJoinOn ==
  (last.op = "generateTableJoins" /\ ~last.out.panic)
  => \A s \in RevSegments(last.model, last.exprs, 1, 1) :
       ReverseJoin(last.out.joins, s[2], s[1], s[1].required)

\* a path went through the required reverse-one-to-one field, whose reverse
\* foreign key is not required, and through the one-to-many field, which is
\* not required and whose reverse foreign key is
C32_Witness ==
  /\ last.op = "generateTableJoins"
  /\ ~last.out.panic
  /\ \E s \in RevSegments(last.model, last.exprs, 1, 1) :
       s[1].required /\ last.out.joins[s[2]].innerJoin
  /\ \E s \in RevSegments(last.model, last.exprs, 1, 1) :
       ~s[1].required /\ ~last.out.joins[s[2]].innerJoin /\ s[2] > 2

(***************************************************************************)
(* The many-to-many links of a cache under writes and invalidations, on    *)
(* posts and tags, which declare the relation on both sides, and on        *)
(* readers and books, where only the reader declares it                    *)
(***************************************************************************)
MaxLinkOps == 3

LinkModels == {"Post", "Tag", "Reader", "Book"}
LinkFields == {f \in FieldTable : f.model \in LinkModels /\ f.fieldType = "Many2Many"}

\* some record is linked to the record id of the related model of g
LinkedThrough(c, g, id) == \E x \in Ids : id \in getM2MLinks(c, g, x)

\* the many-to-many fields that point to model mi
M2MFieldsTo(mi) ==
  {g \in FieldTable : g.fieldType = "Many2Many" /\ g.relatedModel = mi}

LinkInit ==
  /\ cache = newCache
  /\ last = Call("newCache", "", 0, <<>>, Nil, FALSE, {})
  /\ nops = 0
  /\ store = EmptyMap
  /\ log = <<>>
  /\ registry = EmptyMap

\* updateEntry on a many-to-many field
LinkUpdateEntry ==
  /\ nops < MaxLinkOps
  /\ \E fi \in LinkFields, id \in Ids, q \in IdSeqs :
       \E r \in updateEntry(cache, fi.model, id, <<fi.name>>, IdsV(q)) :
         /\ cache' = r.c
         /\ last' = Call("updateEntry", fi.model, id, <<fi.name>>, IdsV(q), r.err, {})
  /\ nops' = nops + 1
  /\ UNCHANGED <<store, log, registry>>

LinkInvalidateRecord ==
  /\ nops < MaxLinkOps
  /\ \E mi \in LinkModels, id \in Ids :
       /\ cache' = invalidateRecord(cache, mi, id)
       /\ last' = Call("invalidateRecord", mi, id, <<>>, Nil, FALSE,
                       {g.name : g \in {h \in M2MFieldsTo(mi) :
                                          LinkedThrough(cache, h, id)}})
  /\ nops' = nops + 1
  /\ UNCHANGED <<store, log, registry>>

LinkNext == LinkUpdateEntry \/ LinkInvalidateRecord

LinkSpec == LinkInit /\ [][LinkNext]_vars

\* the many-to-many fields that model mi declares
M2MFieldsOf(mi) == {f \in FieldsOf(mi) : f.fieldType = "Many2Many"}

\* invalidateRecord removed the data entry of the record and no other
DataOfOthersUnchanged(c, d, ref) ==
  /\ ref \notin DOMAIN d.data
  /\ \A r \in (DOMAIN c.data) \ {ref} : r \in DOMAIN d.data /\ d.data[r] = c.data[r]
  /\ DOMAIN d.data \subseteq DOMAIN c.data

\* C33 as stated: after invalidateRecord(model, id) no getM2MLinks call on
\* any record returns id as a linked record of that model, through whichever
\* field the link was written, and the data entries of the other records
\* are unchanged.
C33_Original ==
  [][ last'.op = "invalidateRecord"
      => /\ \A g \in M2MFieldsTo(last'.model) : ~LinkedThrough(cache', g, last'.id)
         /\ \A f \in M2MFieldsOf(last'.model) : getM2MLinks(cache', f, last'.id) = {}
         /\ DataOfOthersUnchanged(cache, cache', Ref(last'.model, last'.id)) ]_vars

\* C33 amended: invalidateRecord(model, id) purges the links of the record
\* in the relations of the many-to-many fields that the model declares, in
\* whichever role and through whichever of the two fields they were written;
\* the links of a relation that only the other model declares stay, and the
\* data entries of the other records are unchanged.
C33_InvalidatePurgesLinks ==
  [][ last'.op = "invalidateRecord"
      => /\ \A g \in M2MFieldsTo(last'.model) :
              IF \E f \in M2MFieldsOf(last'.model) : f.m2mRelModel = g.m2mRelModel
                THEN ~LinkedThrough(cache', g, last'.id)
                ELSE \A x \in Ids :
                       getM2MLinks(cache', g, x) = getM2MLinks(cache, g, x)
         /\ \A f \in M2MFieldsOf(last'.model) : getM2MLinks(cache', f, last'.id) = {}
         /\ DataOfOthersUnchanged(cache, cache', Ref(last'.model, last'.id)) ]_vars

\* a tag that was linked from a post was invalidated and is linked no more,
\* while another post keeps its data entry
C33_Witness ==
  /\ last.op = "invalidateRecord"
  /\ last.model = "Tag"
  /\ "Tags" \in last.old
  /\ ~LinkedThrough(cache, MustGet("Post", "Tags"), last.id)
  /\ \E p \in Ids : getM2MLinks(cache, MustGet("Post", "Tags"), p) # {}
  /\ DOMAIN cache.data # {}

(***************************************************************************)
(* Queries and their clones. A slice is a header on a backing array of the *)
(* heap: store holds the backing arrays, cache the Condition structs, and  *)
(* registry the Query structs that the program holds pointers to.          *)
(***************************************************************************)
MaxQueries == 3
MaxQueryOps == 3

Slice(arr, len) == [arr |-> arr, len |-> len]
Elems(arrays, sl) == SubSeq(arrays[sl.arr], 1, sl.len)

\* an order-by entry: the path before the first space, as the sequence of
\* its segments, and what follows it
Order(path, direction) == [path |-> path, direction |-> direction]

\* strings.Replace(order, orderPath, strings.Join(v, ExprSep), -1): the path
\* of the entry becomes v
stringsReplace(order, v) == [order EXCEPT !.path = v]

\* Query.clone: the Query struct is copied by the value receiver and the
\* Condition struct by the assignment; the slice headers come with them
clone(world, q) ==
  [world EXCEPT
     !.conds = Append(@, world.conds[world.queries[q].cond]),
     !.queries = Append(@, [world.queries[q] EXCEPT
                              !.cond = Len(world.conds) + 1,
                              !.noDistinct = FALSE])]

\* the loop of substituteConditionExprs over q.orders, from entry i on: an
\* entry whose path has the json path k of substMap is rewritten in place;
\* a key of substMap is a json path, held as the sequence of its segments
RECURSIVE substituteOrders(_, _, _, _, _)
substituteOrders(arrays, mi, sl, substMap, i) ==
  IF i > sl.len THEN arrays
  ELSE LET rewritten(order, jsonPath) ==
             IF jsonPath \in DOMAIN substMap
               THEN [arrays EXCEPT ![sl.arr][i] =
                       stringsReplace(order, substMap[jsonPath])]
               ELSE arrays
       IN substituteOrders(
            rewritten(arrays[sl.arr][i], jsonizeExpr(mi, arrays[sl.arr][i].path)),
            mi, sl, substMap, i + 1)

\* Condition.substituteExprs: the predicates whose path has the json name k
\* of substMap get the path substMap[k]
substitutedPredicates(mi, predicates, substMap) ==
  [i \in DOMAIN predicates |->
     IF jsonizeExpr(mi, predicates[i]) \in DOMAIN substMap
       THEN substMap[jsonizeExpr(mi, predicates[i])]
       ELSE predicates[i]]

\* the predicates are rewritten in their backing array, or the Condition
\* gets a new slice on a new array
substituteExprs(world, mi, cond, substMap, inPlace) ==
  LET written(sl, predicates) ==
        IF inPlace
          THEN [world EXCEPT
                  !.arrays[sl.arr] =
                     predicates \o SubSeq(@, sl.len + 1, Len(@))]
          ELSE [world EXCEPT
                  !.arrays = Append(@, predicates),
                  !.conds[cond].predicates = Slice(Len(world.arrays) + 1, sl.len)]
  IN written(world.conds[cond].predicates,
             substitutedPredicates(mi, Elems(world.arrays, world.conds[cond].predicates),
                                   substMap))

\* Query.substituteConditionExprs
substituteConditionExprs(world, mi, q, substMap, inPlace) ==
  LET orders(w) ==
        [w EXCEPT !.arrays = substituteOrders(@, mi, w.queries[q].orders, substMap, 1)]
  IN orders(substituteExprs(world, mi, world.queries[q].cond, substMap, inPlace))

World(arrays, conds, queries) ==
  [arrays |-> arrays, conds |-> conds, queries |-> queries]

\* what a query shows: its predicates, its groups and its orders
Shown(world, q) ==
  [predicates |-> Elems(world.arrays, world.conds[world.queries[q].cond].predicates),
   groups |-> Elems(world.arrays, world.queries[q].groups),
   orders |-> Elems(world.arrays, world.queries[q].orders)]

SubstMaps ==
  { Row({<< <<"title">>, <<"main_id", "id">> >>}),
    Row({<< <<"id">>, <<"main_id", "id">> >>}),
    Row({<< <<"title">>, <<"id">> >>, << <<"id">>, <<"title">> >>}) }

CloneCall(op, q, substMap) == [op |-> op, q |-> q, substMap |-> substMap]

\* a query on posts with one predicate, one group and two order-by entries
CloneInit ==
  /\ \E path \in {<<"Title">>, <<"title">>, <<"id">>}, direction \in {"", "desc"},
        exprs \in {<<"Title">>, <<"id">>} :
       store = << <<exprs>>, <<"title">>,
                  <<Order(path, direction), Order(<<"id">>, "")>> >>
  /\ cache = << [predicates |-> Slice(1, 1)] >>
  /\ \E noDistinct \in BOOLEAN :
       registry = << [cond |-> 1, groups |-> Slice(2, 1), orders |-> Slice(3, 2),
                      noDistinct |-> noDistinct] >>
  /\ log = <<>>
  /\ last = CloneCall("newQuery", 1, EmptyMap)
  /\ nops = 0

QueryClone ==
  /\ nops < MaxQueryOps
  /\ Len(registry) < MaxQueries
  /\ \E q \in DOMAIN registry :
       \E w \in {clone(World(store, cache, registry), q)} :
         /\ store' = w.arrays
         /\ cache' = w.conds
         /\ registry' = w.queries
         /\ last' = CloneCall("clone", q, EmptyMap)
  /\ nops' = nops + 1
  /\ UNCHANGED log

SubstituteConditionExprs ==
  /\ nops < MaxQueryOps
  /\ \E q \in DOMAIN registry, substMap \in SubstMaps, inPlace \in BOOLEAN :
       \E w \in {substituteConditionExprs(World(store, cache, registry), "Post", q,
                                          substMap, inPlace)} :
         /\ store' = w.arrays
         /\ cache' = w.conds
         /\ registry' = w.queries
         /\ last' = CloneCall("substituteConditionExprs", q, substMap)
  /\ nops' = nops + 1
  /\ UNCHANGED log

CloneNext == QueryClone \/ SubstituteConditionExprs

CloneSpec == CloneInit /\ [][CloneNext]_vars

\* C34: a change made through a query by substituteConditionExprs is not
\* visible in the predicates, the groups or the orders of any other query,
\* whether the other is a clone of it or it is a clone of the other.
C34_CloneIsDeepCopy ==
  [][ last'.op = "substituteConditionExprs"
      => \A q \in (DOMAIN registry) \ {last'.q} :
           Shown(World(store', cache', registry'), q)
             = Shown(World(store, cache, registry), q) ]_vars

(***************************************************************************)
(* Security groups. A Group is known by its ID; inherits holds the         *)
(* Inherits list of every Group, groups the IDs that are registered, and   *)
(* memberships, for every user, the groups of the user with their          *)
(* InheritanceInfo.                                                        *)
(***************************************************************************)
MaxGroupOps == 3

SuperUserID == 1
GroupAdminID == "admin"
NativeGroup == "NativeGroup"
InheritedGroup == "InheritedGroup"

GroupIds == {GroupAdminID, "g1", "g2", "g3"}
Uids == {SuperUserID, 2}

GC(groups, inherits, memberships) ==
  [groups |-> groups, inherits |-> inherits, memberships |-> memberships]

\* NewGroupCollection followed by NewGroup: g1 inherits any of g2 and g3,
\* g2 may inherit g3
NewGroupCollections ==
  { GC(GroupIds,
       [g \in GroupIds |-> CASE g = "g1" -> i1 [] g = "g2" -> i2 [] OTHER -> <<>>],
       [u \in Uids |-> EmptyMap]) :
    i1 \in {<<>>, <<"g2">>, <<"g3">>, <<"g2", "g3">>, <<"g3", "g2">>},
    i2 \in {<<>>, <<"g3">>} }

\* inheritedBy: the parents of the group, each followed by its own
RECURSIVE inheritedBy(_, _)
RECURSIVE inheritedByEach(_, _)
inheritedByEach(gc, parents) ==
  IF parents = <<>> THEN <<>>
  ELSE <<Head(parents)>> \o inheritedBy(gc, Head(parents))
         \o inheritedByEach(gc, Tail(parents))
inheritedBy(gc, group) == inheritedByEach(gc, gc.inherits[group])

\* gc.memberships[uid][group]: the zero value when the user has no entry
membership(gc, uid, group) ==
  IF group \in DOMAIN gc.memberships[uid] THEN gc.memberships[uid][group] ELSE ""

\* the mode AddMembership records: InheritedGroup when inherit is set
modeOf(inherit) == IF inherit THEN InheritedGroup ELSE NativeGroup

RECURSIVE AddMembership(_, _, _, _)
RECURSIVE addInheriting(_, _, _)
addInheriting(gc, uid, inheritingGroups) ==
  IF inheritingGroups = <<>> THEN gc
  ELSE addInheriting(AddMembership(gc, uid, Head(inheritingGroups), TRUE),
                     uid, Tail(inheritingGroups))
AddMembership(gc, uid, group, inherit) ==
  LET recorded(g) ==
        [g EXCEPT !.memberships[uid] = Put(@, group, modeOf(inherit))]
  IN recorded(addInheriting(gc, uid, inheritedBy(gc, group)))

\* the loop of doRemoveMembership over group.Inherits
RECURSIVE removeInherited(_, _, _)
removeInherited(gc, uid, parents) ==
  IF parents = <<>> THEN gc
  ELSE removeInherited(
         IF membership(gc, uid, Head(parents)) = InheritedGroup
           THEN [gc EXCEPT !.memberships[uid] = Del(@, Head(parents))]
           ELSE gc,
         uid, Tail(parents))

doRemoveMembership(gc, uid, group) ==
  removeInherited([gc EXCEPT !.memberships[uid] = Del(@, group)], uid,
                  gc.inherits[group])

\* the loop of RemoveMembership over the memberships of the user, in the
\* order given: the groups found native are added again
RECURSIVE reAdd(_, _, _)
reAdd(gc, uid, order) ==
  IF order = <<>> THEN gc
  ELSE reAdd(IF membership(gc, uid, Head(order)) = NativeGroup
               THEN AddMembership(gc, uid, Head(order), FALSE)
               ELSE gc,
             uid, Tail(order))

RemoveMembership(gc, uid, group, order) ==
  IF group \notin DOMAIN gc.memberships[uid] THEN gc
  ELSE reAdd(doRemoveMembership(gc, uid, group), uid, order)

\* the inner loop of UnregisterGroup on one Inherits list: n is the length
\* the range statement read, arr the backing array, len the length of the
\* slice now; nil is the empty string
RECURSIVE unlink(_, _, _, _, _)
unlink(arr, len, n, i, group) ==
  IF i > n THEN [panic |-> FALSE, inherits |-> SubSeq(arr, 1, len)]
  ELSE IF arr[i] = "" THEN [panic |-> TRUE, inherits |-> SubSeq(arr, 1, len)]
  ELSE IF arr[i] = group
    THEN unlink(SubSeq(arr, 1, i - 1) \o SubSeq(arr, i + 1, len)
                  \o <<"">> \o SubSeq(arr, len + 1, n),
                len - 1, n, i + 1, group)
  ELSE unlink(arr, len, n, i + 1, group)

\* the outer loop of UnregisterGroup over gc.groups, in the order given
RECURSIVE unlinkAll(_, _, _)
unlinkAll(gc, order, group) ==
  IF order = <<>> THEN [panic |-> FALSE, gc |-> gc]
  ELSE LET done(r) ==
             IF r.panic
               THEN [panic |-> TRUE,
                     gc |-> [gc EXCEPT !.inherits[Head(order)] = r.inherits]]
               ELSE unlinkAll([gc EXCEPT !.inherits[Head(order)] = r.inherits],
                              Tail(order), group)
       IN done(unlink(gc.inherits[Head(order)], Len(gc.inherits[Head(order)]),
                      Len(gc.inherits[Head(order)]), 1, group))

\* the loop of UnregisterGroup over gc.memberships
RECURSIVE removeMembers(_, _, _, _)
removeMembers(gc, uids, group, orders) ==
  IF uids = <<>> THEN gc
  ELSE removeMembers(RemoveMembership(gc, Head(uids), group, orders[Head(uids)]),
                     Tail(uids), group, orders)

UnregisterGroup(gc, group, groupOrder, orders) ==
  LET unlinked(r) ==
        IF r.panic THEN r
        ELSE [panic |-> FALSE,
              gc |-> [removeMembers(r.gc, SortedSeq(Uids), group, orders)
                        EXCEPT !.groups = @ \ {group}]]
  IN unlinked(unlinkAll(gc, groupOrder, group))

RegisterGroup(gc, group) ==
  IF group \in gc.groups THEN [panic |-> TRUE, gc |-> gc]
  ELSE [panic |-> FALSE, gc |-> [gc EXCEPT !.groups = @ \cup {group}]]

RemoveAllMembershipsForUser(gc, uid) ==
  LET removed(g) ==
        IF uid = SuperUserID THEN AddMembership(g, SuperUserID, GroupAdminID, FALSE)
        ELSE g
  IN removed([gc EXCEPT !.memberships[uid] = EmptyMap])

GetGroup(gc, groupID) == IF groupID \in gc.groups THEN groupID ELSE ""

(***************************************************************************)
(* A group collection under a bounded sequence of calls of one goroutine.  *)
(* store keeps, for every user, the groups the callers added the user to   *)
(* and did not remove the user from; log keeps the groups unregistered.    *)
(***************************************************************************)
GCall(op, uid, group, panic) ==
  [op |-> op, uid |-> uid, group |-> group, panic |-> panic]

Natives(gc, uid) ==
  {g \in DOMAIN gc.memberships[uid] : gc.memberships[uid][g] = NativeGroup}

GroupInit ==
  /\ registry \in NewGroupCollections
  /\ store = [u \in Uids |-> {}]
  /\ log = <<>>
  /\ cache = newCache
  /\ last = GCall("NewGroupCollection", 0, "", FALSE)
  /\ nops = 0

CallAddMembership ==
  /\ nops < MaxGroupOps
  /\ \E uid \in Uids, group \in GroupIds :
       /\ registry' = AddMembership(registry, uid, group, FALSE)
       /\ store' = [store EXCEPT ![uid] = @ \cup {group}]
       /\ last' = GCall("AddMembership", uid, group, FALSE)
  /\ nops' = nops + 1
  /\ UNCHANGED <<cache, log>>

CallRemoveMembership ==
  /\ nops < MaxGroupOps
  /\ \E uid \in Uids, group \in GroupIds :
       \E order \in Orders(Natives(registry, uid) \ {group}) :
         /\ registry' = RemoveMembership(registry, uid, group, order)
         /\ store' = [store EXCEPT ![uid] = @ \ {group}]
         /\ last' = GCall("RemoveMembership", uid, group, FALSE)
  /\ nops' = nops + 1
  /\ UNCHANGED <<cache, log>>

CallUnregisterGroup ==
  /\ nops < MaxGroupOps
  /\ \E group \in registry.groups :
       \E groupOrder \in Orders({g \in registry.groups : registry.inherits[g] # <<>>}),
          o1 \in Orders(Natives(registry, SuperUserID) \ {group}),
          o2 \in Orders(Natives(registry, 2) \ {group}) :
         \E r \in {UnregisterGroup(registry, group, groupOrder,
                                   [u \in Uids |-> IF u = SuperUserID THEN o1 ELSE o2])} :
           /\ registry' = r.gc
           /\ store' = IF r.panic THEN store ELSE [u \in Uids |-> store[u] \ {group}]
           /\ log' = Append(log, group)
           /\ last' = GCall("UnregisterGroup", 0, group, r.panic)
  /\ nops' = nops + 1
  /\ UNCHANGED cache

CallRegisterGroup ==
  /\ nops < MaxGroupOps
  /\ \E group \in GroupIds :
       \E r \in {RegisterGroup(registry, group)} :
         /\ registry' = r.gc
         /\ last' = GCall("RegisterGroup", 0, group, r.panic)
  /\ nops' = nops + 1
  /\ UNCHANGED <<cache, store, log>>

CallRemoveAllMembershipsForUser ==
  /\ nops < MaxGroupOps
  /\ \E uid \in Uids :
       /\ registry' = RemoveAllMembershipsForUser(registry, uid)
       /\ store' = [store EXCEPT ![uid] = IF uid = SuperUserID THEN {GroupAdminID} ELSE {}]
       /\ last' = GCall("RemoveAllMembershipsForUser", uid, "", FALSE)
  /\ nops' = nops + 1
  /\ UNCHANGED <<cache, log>>

GroupNext ==
  \/ CallAddMembership
  \/ CallRemoveMembership
  \/ CallUnregisterGroup
  \/ CallRegisterGroup
  \/ CallRemoveAllMembershipsForUser

GroupSpec == GroupInit /\ [][GroupNext]_vars

\* the groups reachable from a set of groups through Inherits
RECURSIVE Closure(_, _)
Closure(gc, S) ==
  LET step(T) == IF T = S THEN S ELSE Closure(gc, T)
  IN step(S \cup UNION {Range(gc.inherits[g]) : g \in S})

\* C35: while the hierarchy is as it was built, the groups a user is a member
\* of are the groups the user was added to and not removed from, and the
\* groups reachable from these through Inherits.
C35_MembershipIsClosure ==
  log = <<>>
  => \A uid \in Uids :
       DOMAIN registry.memberships[uid] = Closure(registry, store[uid])

\* C36: a membership recorded as NativeGroup stays NativeGroup over every
\* call but RemoveMembership of that user and group,
\* RemoveAllMembershipsForUser of that user and UnregisterGroup of that group.
C36_NativeNotDowngraded ==
  [][ \A uid \in Uids, g \in GroupIds :
        (/\ membership(registry, uid, g) = NativeGroup
         /\ ~(last'.op = "RemoveMembership" /\ last'.uid = uid /\ last'.group = g)
         /\ ~(last'.op = "RemoveAllMembershipsForUser" /\ last'.uid = uid)
         /\ ~(last'.op = "UnregisterGroup" /\ last'.group = g))
        => membership(registry', uid, g) = NativeGroup ]_vars

\* the list without the entries that are the group
RECURSIVE Without(_, _)
Without(list, group) ==
  IF list = <<>> THEN <<>>
  ELSE (IF Head(list) = group THEN <<>> ELSE <<Head(list)>>)
         \o Without(Tail(list), group)

\* C37: UnregisterGroup(g) of a registered group returns without a panic;
\* afterwards g is in no Inherits list, no user is a member of g, GetGroup
\* of its ID returns nil, and the Inherits lists keep their other entries
\* in their order.
C37_UnregisterGroup ==
  [][ last'.op = "UnregisterGroup"
      => /\ ~last'.panic
         /\ \A g \in GroupIds :
              registry'.inherits[g] = Without(registry.inherits[g], last'.group)
         /\ \A uid \in Uids : last'.group \notin DOMAIN registry'.memberships[uid]
         /\ GetGroup(registry', last'.group) = "" ]_vars

(***************************************************************************)
(* A group collection used by several goroutines. Every goroutine runs     *)
(* one call at a time, an instruction at a step: store holds what each     *)
(* goroutine has left to run, cache the holder of the lock of the          *)
(* collection (0 when it is free) and whether the runtime ended the        *)
(* program on a concurrent map access.                                     *)
(***************************************************************************)
MaxLockOps == 2

Goroutines == {1, 2}

\* an instruction: a call to make, Lock, Unlock, or a statement on the maps
Instr(k, uid, group, inherit, rest) ==
  [k |-> k, uid |-> uid, group |-> group, inherit |-> inherit, rest |-> rest]
Lock == Instr("Lock", 0, "", FALSE, {})
Unlock == Instr("Unlock", 0, "", FALSE, {})

\* the maps an instruction reads or writes
Access(instr) ==
  CASE instr.k \in {"AddMembership"} -> {<<"inherits", "r">>}
    [] instr.k \in {"RemoveMembership", "range memberships[uid]", "range memberships",
                    "HasMembership", "UserGroups"} -> {<<"memberships", "r">>}
    [] instr.k \in {"memberships[uid][group] = mode", "delete(memberships, uid)"} ->
         {<<"memberships", "w">>}
    [] instr.k = "doRemoveMembership" -> {<<"memberships", "w">>, <<"inherits", "r">>}
    [] instr.k = "UnregisterGroup" -> {<<"groups", "r">>, <<"inherits", "w">>}
    [] instr.k \in {"groups[ID] = group"} -> {<<"groups", "r">>, <<"groups", "w">>}
    [] instr.k \in {"delete(groups, ID)"} -> {<<"groups", "w">>}
    [] instr.k \in {"GetGroup", "AllGroups"} -> {<<"groups", "r">>}
    [] OTHER -> {}

\* the calls of AddMembership on the inheriting groups
RECURSIVE addCalls(_, _)
addCalls(uid, inheritingGroups) ==
  IF inheritingGroups = <<>> THEN <<>>
  ELSE <<Instr("AddMembership", uid, Head(inheritingGroups), TRUE, {})>>
         \o addCalls(uid, Tail(inheritingGroups))

\* doRemoveMembership: the lock is taken, and released when it returns
doRemoveMembershipBody_held(uid, group) ==
  <<Lock, Instr("doRemoveMembership", uid, group, FALSE, {})>>
doRemoveMembershipBody(uid, group) ==
  <<Lock, Instr("doRemoveMembership", uid, group, FALSE, {}), Unlock>>

Outcome3(gc, cont, panic) == [gc |-> gc, cont |-> cont, panic |-> panic]

\* what running the instruction does: the collection after it, the
\* instructions it puts before the rest of the call, and whether it panics
exec(gc, instr) ==
  CASE instr.k = "AddMembership" ->
         {Outcome3(gc,
                   addCalls(instr.uid, inheritedBy(gc, instr.group))
                     \o <<Lock,
                          Instr("memberships[uid][group] = mode", instr.uid,
                                instr.group, instr.inherit, {}),
                          Unlock>>,
                   FALSE)}
    [] instr.k = "memberships[uid][group] = mode" ->
         {Outcome3([gc EXCEPT !.memberships[instr.uid] =
                      Put(@, instr.group, modeOf(instr.inherit))],
                   <<>>, FALSE)}
    [] instr.k = "RemoveMembership" ->
         {Outcome3(gc,
                   IF instr.group \notin DOMAIN gc.memberships[instr.uid] THEN <<>>
                   ELSE doRemoveMembershipBody(instr.uid, instr.group)
                          \o <<Instr("range memberships[uid]", instr.uid, "", FALSE,
                                     {"start"})>>,
                   FALSE)}
    [] instr.k = "doRemoveMembership" ->
         {Outcome3(doRemoveMembership(gc, instr.uid, instr.group), <<>>, FALSE)}
    [] instr.k = "range memberships[uid]" ->
         IF instr.rest = {"start"}
           THEN {Outcome3(gc,
                          <<Instr("range memberships[uid]", instr.uid, "", FALSE,
                                  DOMAIN gc.memberships[instr.uid])>>,
                          FALSE)}
         ELSE IF instr.rest = {} THEN {Outcome3(gc, <<>>, FALSE)}
         ELSE {Outcome3(gc,
                        (IF membership(gc, instr.uid, grp) = NativeGroup
                           THEN <<Instr("AddMembership", instr.uid, grp, FALSE, {})>>
                           ELSE <<>>)
                          \o <<Instr("range memberships[uid]", instr.uid, "", FALSE,
                                     instr.rest \ {grp})>>,
                        FALSE) : grp \in instr.rest}
    [] instr.k = "UnregisterGroup" ->
         {IF r.panic THEN Outcome3(r.gc, <<>>, TRUE)
          ELSE Outcome3(r.gc,
                        <<Instr("range memberships", 0, instr.group, FALSE, Uids)>>,
                        FALSE) :
          r \in {unlinkAll(gc, order, instr.group) :
                   order \in Orders({g \in gc.groups : gc.inherits[g] # <<>>})}}
    [] instr.k = "range memberships" ->
         IF instr.rest = {}
           THEN {Outcome3(gc, <<Lock, Instr("delete(groups, ID)", 0, instr.group,
                                            FALSE, {}), Unlock>>, FALSE)}
           ELSE {Outcome3(gc,
                          <<Instr("RemoveMembership", uid, instr.group, FALSE, {}),
                            Instr("range memberships", 0, instr.group, FALSE,
                                  instr.rest \ {uid})>>,
                          FALSE) : uid \in instr.rest}
    [] instr.k = "delete(groups, ID)" ->
         {Outcome3([gc EXCEPT !.groups = @ \ {instr.group}], <<>>, FALSE)}
    [] instr.k = "RegisterGroup" ->
         {Outcome3(gc, <<Lock, Instr("groups[ID] = group", 0, instr.group, FALSE, {}),
                         Unlock>>, FALSE)}
    [] instr.k = "groups[ID] = group" ->
         {Outcome3(RegisterGroup(gc, instr.group).gc, <<>>,
                   RegisterGroup(gc, instr.group).panic)}
    [] instr.k = "RemoveAllMembershipsForUser" ->
         {Outcome3(gc,
                   <<Lock, Instr("delete(memberships, uid)", instr.uid, "", FALSE, {}),
                     Unlock>>
                     \o (IF instr.uid = SuperUserID
                           THEN <<Instr("AddMembership", SuperUserID, GroupAdminID,
                                        FALSE, {})>>
                           ELSE <<>>),
                   FALSE)}
    [] instr.k = "delete(memberships, uid)" ->
         {Outcome3([gc EXCEPT !.memberships[instr.uid] = EmptyMap], <<>>, FALSE)}
    [] OTHER -> {Outcome3(gc, <<>>, FALSE)}

\* the calls the goroutines make
LockCalls ==
  { Instr("AddMembership", 2, "g1", FALSE, {}),
    Instr("RemoveMembership", 2, "g1", FALSE, {}),
    Instr("UnregisterGroup", 0, "g3", FALSE, {}),
    Instr("RegisterGroup", 0, "g3", FALSE, {}),
    Instr("RemoveAllMembershipsForUser", SuperUserID, "", FALSE, {}),
    Instr("HasMembership", 2, "g2", FALSE, {}),
    Instr("UserGroups", 2, "", FALSE, {}),
    Instr("GetGroup", 0, "g3", FALSE, {}),
    Instr("AllGroups", 0, "", FALSE, {}) }

\* two goroutines are each about to access the same map, one to write it
Race ==
  \E g \in Goroutines, h \in Goroutines :
    /\ g # h
    /\ store[g] # <<>>
    /\ store[h] # <<>>
    /\ \E a \in Access(Head(store[g])), b \in Access(Head(store[h])) :
         a[1] = b[1] /\ a[2] = "w"

LockInit ==
  /\ registry \in {gc \in NewGroupCollections :
                     gc.inherits["g1"] # <<>> /\ gc.inherits["g2"] # <<>>}
  /\ cache = [lock |-> 0, fatal |-> FALSE]
  /\ store = [g \in Goroutines |-> <<>>]
  /\ log = <<>>
  /\ last = GCall("NewGroupCollection", 0, "", FALSE)
  /\ nops = 0

\* a goroutine that runs nothing makes a call
Go(g) ==
  /\ ~cache.fatal
  /\ store[g] = <<>>
  /\ nops < MaxLockOps
  /\ \E call \in LockCalls :
       /\ store' = [store EXCEPT ![g] = <<call>>]
       /\ last' = GCall(call.k, call.uid, call.group, FALSE)
  /\ nops' = nops + 1
  /\ UNCHANGED <<cache, registry, log>>

\* gc.Lock(): the goroutine waits until the lock is free; a goroutine that
\* holds the lock waits for itself
Acquire(g) ==
  /\ ~cache.fatal
  /\ store[g] # <<>>
  /\ Head(store[g]) = Lock
  /\ cache.lock = 0
  /\ cache' = [cache EXCEPT !.lock = g]
  /\ store' = [store EXCEPT ![g] = Tail(@)]
  /\ UNCHANGED <<registry, log, last, nops>>

\* the deferred gc.Unlock()
Release(g) ==
  /\ ~cache.fatal
  /\ store[g] # <<>>
  /\ Head(store[g]) = Unlock
  /\ cache' = [cache EXCEPT !.lock = 0]
  /\ store' = [store EXCEPT ![g] = Tail(@)]
  /\ UNCHANGED <<registry, log, last, nops>>

\* the goroutine runs its next instruction; a panic ends the call, and the
\* deferred Unlock releases the lock on the way
Run(g) ==
  /\ ~cache.fatal
  /\ store[g] # <<>>
  /\ Head(store[g]).k \notin {"Lock", "Unlock"}
  /\ \E r \in exec(registry, Head(store[g])) :
       /\ registry' = r.gc
       /\ store' = [store EXCEPT ![g] = IF r.panic THEN <<>> ELSE r.cont \o Tail(@)]
       /\ cache' = IF r.panic /\ cache.lock = g THEN [cache EXCEPT !.lock = 0]
                   ELSE cache
       /\ last' = IF r.panic THEN [last EXCEPT !.panic = TRUE] ELSE last
  /\ UNCHANGED <<log, nops>>

\* the runtime finds a map read or written while another goroutine writes
\* it, and ends the program
Fatal ==
  /\ ~cache.fatal
  /\ Race
  /\ cache' = [cache EXCEPT !.fatal = TRUE]
  /\ store' = [g \in Goroutines |-> <<>>]
  /\ UNCHANGED <<registry, log, last, nops>>

Steps(g) == Acquire(g) \/ Release(g) \/ Run(g)

LockNext == (\E g \in Goroutines : Go(g) \/ Steps(g)) \/ Fatal

LockSpec == LockInit /\ [][LockNext]_vars

\* the scheduler runs every goroutine that can run
FairLockSpec == LockSpec /\ \A g \in Goroutines : WF_vars(Steps(g))

\* C38: every read or write of the groups map, of the memberships map and
\* of the Inherits lists is made by a goroutine that holds the lock of the
\* collection, and no map is accessed while another goroutine writes it.
C38_LockDiscipline ==
  /\ \A g \in Goroutines :
       (store[g] # <<>> /\ Access(Head(store[g])) # {}) => cache.lock = g
  /\ ~Race
  /\ ~cache.fatal

\* C39: no goroutine takes the lock while it holds it, a goroutine whose
\* call has ended, by a return or by a panic, does not hold the lock, and
\* every call that a goroutine has started comes to its end.
C39_DeadlockFree ==
  /\ [](\A g \in Goroutines :
          (store[g] # <<>> /\ Head(store[g]) = Lock) => cache.lock # g)
  /\ [](\A g \in Goroutines : (store[g] = <<>> /\ ~cache.fatal) => cache.lock # g)
  /\ \A g \in Goroutines : (store[g] # <<>>) ~> (store[g] = <<>>)

\* a goroutine waits for the lock inside the calls of AddMembership on the
\* inherited groups while the other goroutine holds it
C39_Witness ==
  \E g \in Goroutines, h \in Goroutines :
    /\ g # h
    /\ cache.lock = h
    /\ store[g] # <<>>
    /\ Head(store[g]) = Lock
    /\ \E i \in DOMAIN store[g] : store[g][i].k = "AddMembership" /\ store[g][i].inherit
    /\ ~cache.fatal

\* ---------------------------------------------------------------------
\* Loading the files of the registered modules (package server)
\* ---------------------------------------------------------------------

MaxModules == 3
MaxLoadOps == 2

ModuleNames == {"base", "sale", "web"}
DirKinds == {"i18n", "data", "demo", "resources"}
LangNames == {"de", "fr"}

\* the languages asked for, in the order of the caller
LangLists == {<<>>, <<"de">>, <<"fr">>, <<"de", "fr">>, <<"fr", "de">>}

\* a file of a module directory
DataFile(dir, mod, name) == [dir |-> dir, mod |-> mod, name |-> name]

\* the PO files shipped in the i18n directory of a module
PoFiles(mod) ==
  CASE mod = "base" -> {"de", "fr"}
    [] mod = "sale" -> {"fr"}
    [] OTHER -> {"de"}

\* filepath.Glob(dataDir/lang.po): the file when it exists
GlobPo(mod, lang) ==
  IF lang \in PoFiles(mod) THEN <<DataFile("i18n", mod, lang)>> ELSE <<>>

\* filepath.Glob(dataDir/*.ext): the files of the directory, sorted
GlobAll(dir, mod) == <<DataFile(dir, mod, "10"), DataFile(dir, mod, "20")>>

\* sort.StringSlice(poFiles).Sort() on the files of one directory
LangRank(name) == IF name = "de" THEN 1 ELSE 2

RECURSIVE InsertFile(_, _)
InsertFile(files, f) ==
  IF files = <<>> THEN <<f>>
  ELSE IF LangRank(f.name) < LangRank(Head(files).name)
       THEN <<f>> \o files
       ELSE <<Head(files)>> \o InsertFile(Tail(files), f)

RECURSIVE SortFiles(_)
SortFiles(files) ==
  IF files = <<>> THEN <<>> ELSE InsertFile(SortFiles(Tail(files)), Head(files))

RECURSIVE poFilesOf(_, _)
poFilesOf(mod, langs) ==
  IF langs = <<>> THEN <<>>
  ELSE GlobPo(mod, Head(langs)) \o poFilesOf(mod, Tail(langs))

\* LoadModuleTranslations: the PO files handed to i18n.LoadPOFile
LoadModuleTranslations(mod, langs) == SortFiles(poFilesOf(mod, langs))

\* LoadTranslations from module i on; fs[dir] is the set of the modules
\* that have the directory
RECURSIVE loadTranslationsFrom(_, _, _, _)
loadTranslationsFrom(mods, fs, langs, i) ==
  IF i > Len(mods) THEN <<>>
  ELSE IF mods[i] \notin fs["i18n"]
       THEN <<>>
       ELSE LoadModuleTranslations(mods[i], langs)
              \o loadTranslationsFrom(mods, fs, langs, i + 1)

LoadTranslations(mods, fs, langs) == loadTranslationsFrom(mods, fs, langs, 1)

\* loadData from module i on
RECURSIVE loadDataFrom(_, _, _, _)
loadDataFrom(mods, fs, dir, i) ==
  IF i > Len(mods) THEN <<>>
  ELSE IF mods[i] \notin fs[dir]
       THEN loadDataFrom(mods, fs, dir, i + 1)
       ELSE GlobAll(dir, mods[i]) \o loadDataFrom(mods, fs, dir, i + 1)

loadData(mods, fs, dir) == loadDataFrom(mods, fs, dir, 1)

LoadCall(op, langs) == [op |-> op, langs |-> langs]

\* the modules register themselves in their init() functions; the
\* directories of the installation are whatever was generated
LoadInit ==
  /\ registry = <<>>
  /\ cache \in [DirKinds -> SUBSET ModuleNames]
  /\ store = <<>>
  /\ log = <<>>
  /\ last = LoadCall("init", <<>>)
  /\ nops = 0

RegisterModule ==
  /\ nops = 0
  /\ Len(registry) < MaxModules
  /\ \E mod \in ModuleNames \ Range(registry) :
       registry' = Append(registry, mod)
  /\ last' = LoadCall("RegisterModule", <<>>)
  /\ UNCHANGED <<cache, store, log, nops>>

\* log is the sequence of the files given to the loader by the call
CallLoadTranslations ==
  /\ nops < MaxLoadOps
  /\ \E langs \in LangLists :
       /\ log' = LoadTranslations(registry, cache, langs)
       /\ last' = LoadCall("LoadTranslations", langs)
  /\ nops' = nops + 1
  /\ UNCHANGED <<cache, store, registry>>

LoadFiles(op, dir) ==
  /\ nops < MaxLoadOps
  /\ log' = loadData(registry, cache, dir)
  /\ last' = LoadCall(op, <<>>)
  /\ nops' = nops + 1
  /\ UNCHANGED <<cache, store, registry>>

LoadInternalResources == LoadFiles("LoadInternalResources", "resources")

LoadDataRecords == LoadFiles("LoadDataRecords", "data")

LoadDemoRecords == LoadFiles("LoadDemoRecords", "demo")

LoadNext ==
  \/ RegisterModule
  \/ CallLoadTranslations
  \/ LoadInternalResources
  \/ LoadDataRecords
  \/ LoadDemoRecords

LoadSpec == LoadInit /\ [][LoadNext]_vars

\* the PO files of the asked languages in the i18n directories of the
\* registered modules
ExpectedPo(mods, fs, langs) ==
  UNION {{DataFile("i18n", mod, l) : l \in Range(langs) \cap PoFiles(mod)} :
           mod \in Range(mods) \cap fs["i18n"]}

\* C40: LoadTranslations loads the PO files of every registered module that
\* has an i18n directory, wherever in the module list the modules without
\* one stand: a module without the directory is skipped and the modules
\* after it are still processed.
C40_LoadsEveryModule ==
  [][(nops' = nops + 1 /\ last'.op = "LoadTranslations") =>
       Range(log') = ExpectedPo(registry, cache, last'.langs)]_vars

====
